---- MODULE Spec2Model ----
(***************************************************************************)
(* Verification model of the Sentinel Compliance Agent: the policy         *)
(* evaluator, the gateway admission checks, the audit hash chain, the      *)
(* health probe and the ops control pipeline (manager, approver,           *)
(* executor).  Each subsystem has its own specification over the shared    *)
(* variables; the variables of the other subsystems stay at their initial  *)
(* values.                                                                 *)
(***************************************************************************)
EXTENDS Integers, Sequences, FiniteSets, TLC

VARIABLES
    pol_cmd,        \* policy evaluator: the command passed in (characters)
    pol_rep,        \* policy evaluator: the reputation passed in
    pol_result      \* policy evaluator: the tuple returned, or NoResult

polVars == <<pol_cmd, pol_rep, pol_result>>

VARIABLES
    audit_exists,   \* whether audit.jsonl exists
    audit_file,     \* audit.jsonl: the sequence of lines
    audit_state,    \* audit.state: the stored head, NoHash while the file is absent
    audit_head,     \* audit_head.txt
    audit_secret,   \* SENTINEL_AUDIT_SECRET ("" when not configured)
    audit_appends,  \* history: number of completed write_audit_log calls
    audit_stops,    \* history: number of write_audit_log calls that stopped part-way
    tamper          \* history: the edit made to audit.jsonl behind the gateway's back

auditVars == <<audit_exists, audit_file, audit_state, audit_head, audit_secret,
               audit_appends, audit_stops, tamper>>

VARIABLES
    now,            \* wall clock, int(time.time())
    probe_state,    \* Redis ops:probe:state:<svc>: "ok", "fail", or "" while unset
    probe_failcount,\* Redis ops:probe:failcount:<svc>: the counter, -1 while unset
    q_incidents,    \* Redis list ops:incidents (head first)
    probe_emitted,  \* history: emit_incident calls per service
    probe_edges,    \* history: cycles per service that stored fail over unknown/ok
    probe_run       \* history: failed probes per service since its last successful one

clockVars == <<now>>
probeVars == <<probe_state, probe_failcount, probe_emitted, probe_edges, probe_run>>

VARIABLES
    gw_cfg,         \* gateway start-up configuration: GLOBAL_FREEZE, API_KEY,
                    \* SIGNING_SECRET and _redis_ok
    rate_events,    \* _rate_events: per agent the deque of admission times
    replay_redis,   \* Redis keys sentinel:replay:<nonce>, each with its set time
    replay_sqlite,  \* sqlite table replay_nonces: rows (nonce, created_at)
    ledger,         \* reputation.json: per agent the integer ledger state
    oracle,         \* Redis rep:<agent>: the score in hundredths, -1 while unset
    gw_last,        \* history: the last /analyze request and its response
    gw_passed,      \* history: (nonce, time) of every check-and-set that returned true
    rate_log,       \* history: per agent the admission attempts (time, admitted)
    gw_requests,    \* history: number of /analyze requests served
    ledger_log      \* history: the direct calls of get_state and update_reputation

gwVars == <<gw_cfg, rate_events, replay_redis, replay_sqlite, ledger, oracle,
            gw_last, gw_passed, rate_log, gw_requests, ledger_log>>

VARIABLES
    q_triaged,      \* Redis list ops:incidents:triaged
    q_decisions,    \* Redis list ops:manager:decisions
    q_proposed,     \* Redis list ops:actions:proposed (head first)
    kv_action,      \* Redis strings ops:action:<id>: the canonical records
    ttl_keys,       \* Redis keys set with EX: dedupe, ratelimit, proposed:fp,
                    \* cooldown and exec:done keys, each with its expiry time
    budget_zset,    \* Redis sorted set ops:budget:actions
    ops_freeze,     \* whether the global freeze key exists
    uuid_next,      \* history: number of uuid4 values drawn
    mgr_log         \* history: what the manager did with each incident

mgrVars == <<q_triaged, q_decisions, q_proposed, kv_action, ttl_keys, budget_zset,
             ops_freeze, uuid_next, mgr_log>>

VARIABLES
    dg_a, dg_b,     \* two action records handed to digest_action
    dg_da, dg_db    \* their digests, NoHash until computed

digestVars == <<dg_a, dg_b, dg_da, dg_db>>

VARIABLES
    q_proposed_inflight,   \* list ops:actions:proposed:inflight (head first)
    q_approved,            \* list ops:actions:approved
    q_approved_inflight,   \* list ops:actions:approved:inflight (head first)
    q_executed,            \* list ops:actions:executed
    q_rejected,            \* list ops:actions:rejected
    ap_item,               \* the item the approver has claimed, NoItem between iterations
    ex_item,               \* the item the executor has claimed, NoItem between iterations
    approved_sent,         \* history: the messages _approve has pushed
    exec_log,              \* history: one entry per item the executor has processed
    redelivered            \* history: number of repeated deliveries

VARIABLES
    q_quarantine,          \* list ops:actions:quarantine
    requeue_count,         \* Redis counters ops:requeue_count:<origin>:<action_id>
    ap_log,                \* history: one entry per id the approver has processed
    reap_log,              \* history: one entry per inflight item the reaper has removed
    reap_kept,             \* history: the tokens on an inflight list that the scans of the
                           \* reaper have passed over at the current time
    maint_proposed,        \* history: number of proposals of the maintenance worker
    crashes                \* history: number of worker crashes

reapVars == <<q_quarantine, requeue_count, ap_log, reap_log, reap_kept, maint_proposed,
              crashes>>

pipeVars == <<q_proposed_inflight, q_approved, q_approved_inflight, q_executed, q_rejected,
              ap_item, ex_item, approved_sent, exec_log, redelivered, reapVars>>

opsVars == <<mgrVars, digestVars, pipeVars>>

VARIABLES
    sq_secret,             \* QUEUE_SIGNING_SECRET ("" when signing is disabled)
    sq_list,               \* a Redis list written by qpush and read by qpop (head first)
    sq_log                 \* history: the qpush and qpop calls

queueVars == <<sq_secret, sq_list, sq_log>>

VARIABLES
    aw_threads,     \* per handler thread: its position in write_audit_log and its locals
    lg_threads,     \* per handler thread: its position in the ledger update and its locals
    lg_done         \* history: completed ledger updates per agent

threadVars == <<aw_threads, lg_threads, lg_done>>

vars == <<polVars, auditVars, clockVars, probeVars, q_incidents, gwVars, opsVars, queueVars, threadVars>>

(***************************************************************************)
(* Characters and the regular expressions of sentinel_rules/policy_v2.py   *)
(***************************************************************************)
UpperChars == <<"A","B","C","D","E","F","G","H","I","J","K","L","M",
                "N","O","P","Q","R","S","T","U","V","W","X","Y","Z">>
LowerChars == <<"a","b","c","d","e","f","g","h","i","j","k","l","m",
                "n","o","p","q","r","s","t","u","v","w","x","y","z">>
DigitChars == {"0","1","2","3","4","5","6","7","8","9"}

Range(s) == {s[i] : i \in DOMAIN s}

\* re.IGNORECASE: both sides are compared in lower case
Lower(c) ==
    IF \E i \in DOMAIN UpperChars : UpperChars[i] = c
    THEN LowerChars[CHOOSE i \in DOMAIN UpperChars : UpperChars[i] = c]
    ELSE c

\* \s and str.strip(): whitespace
IsSpace(c) == c \in {" ", "\t", "\n", "\r"}

\* \w: letters, digits, underscore
IsWord(c) == c \in Range(UpperChars) \cup Range(LowerChars) \cup DigitChars \cup {"_"}

\* \b at position p (between s[p] and s[p+1]): exactly one side is a word character
AtBoundary(s, p) ==
    LET before == p >= 1 /\ IsWord(s[p])
        after  == p < Len(s) /\ IsWord(s[p + 1])
    IN before # after

\* str.strip(): drop leading and trailing whitespace
RECURSIVE LStrip(_)
LStrip(s) == IF s # <<>> /\ IsSpace(Head(s)) THEN LStrip(Tail(s)) ELSE s

RECURSIVE RStrip(_)
RStrip(s) ==
    IF s # <<>> /\ IsSpace(s[Len(s)]) THEN RStrip(SubSeq(s, 1, Len(s) - 1)) ELSE s

Strip(s) == RStrip(LStrip(s))

\* Regular expression syntax trees
ReLit(c)  == [t |-> "lit", c |-> c]          \* one literal character
ReCls(k)  == [t |-> "cls", k |-> k]          \* \s, \S, \w or .
ReBnd     == [t |-> "bnd"]                   \* \b
ReEol     == [t |-> "eol"]                   \* $
ReSeq(rs) == [t |-> "seq", rs |-> rs]        \* concatenation
ReStar(r) == [t |-> "star", r |-> r]         \* r*
RePlus(r) == [t |-> "plus", r |-> r]         \* r+
ReOpt(r)  == [t |-> "opt", r |-> r]          \* (r)?
ReStr(cs) == ReSeq([i \in DOMAIN cs |-> ReLit(cs[i])])

InClass(k, c) ==
    CASE k = "s"   -> IsSpace(c)
      [] k = "S"   -> ~IsSpace(c)
      [] k = "w"   -> IsWord(c)
      [] k = "dot" -> c # "\n"

\* The positions at which a match of re can end when it starts at one of the
\* positions of P (a position is the number of characters before it).
RECURSIVE ReEnds(_, _, _)
RECURSIVE ReSeqEnds(_, _, _, _)
RECURSIVE ReClosure(_, _, _)

ReEnds(re, s, P) ==
    CASE re.t = "lit"  -> {p + 1 : p \in {q \in P : q < Len(s) /\ Lower(s[q + 1]) = Lower(re.c)}}
      [] re.t = "cls"  -> {p + 1 : p \in {q \in P : q < Len(s) /\ InClass(re.k, s[q + 1])}}
      [] re.t = "bnd"  -> {p \in P : AtBoundary(s, p)}
      [] re.t = "eol"  -> {p \in P : p = Len(s) \/ (p = Len(s) - 1 /\ s[Len(s)] = "\n")}
      [] re.t = "seq"  -> ReSeqEnds(re.rs, 1, s, P)
      [] re.t = "star" -> ReClosure(re.r, s, P)
      [] re.t = "plus" -> ReClosure(re.r, s, ReEnds(re.r, s, P))
      [] re.t = "opt"  -> P \cup ReEnds(re.r, s, P)

ReSeqEnds(rs, i, s, P) ==
    IF i > Len(rs) THEN P ELSE ReSeqEnds(rs, i + 1, s, ReEnds(rs[i], s, P))

ReClosure(r, s, P) ==
    LET Q == P \cup ReEnds(r, s, P)
    IN IF Q = P THEN P ELSE ReClosure(r, s, Q)

\* rx.search(cmd): a match starting anywhere
ReSearch(re, s) == ReEnds(re, s, 0 .. Len(s)) # {}

ReWs     == RePlus(ReCls("s"))            \* \s+
ReOptWs  == ReStar(ReCls("s"))            \* \s*
ReAny    == ReStar(ReCls("dot"))          \* .*

DENY_PATTERNS == <<
    [rx |-> ReSeq(<<ReBnd, ReStr(<<"d","d">>), ReBnd, ReAny,
                    ReBnd, ReStr(<<"i","f","=","/","d","e","v","/","z","e","r","o">>), ReBnd, ReAny,
                    ReBnd, ReStr(<<"o","f","=","/","d","e","v","/">>), RePlus(ReCls("S"))>>),
     reason |-> "Matched high-risk pattern: 'dd if=/dev/zero of=/dev/*'"],
    [rx |-> ReSeq(<<ReBnd, ReStr(<<"m","k","f","s">>),
                    ReOpt(ReSeq(<<ReLit("."), RePlus(ReCls("w"))>>)), ReBnd>>),
     reason |-> "Matched high-risk pattern: 'mkfs'"],
    [rx |-> ReSeq(<<ReBnd, ReStr(<<"w","i","p","e","f","s">>), ReBnd>>),
     reason |-> "Matched high-risk pattern: 'wipefs'"],
    [rx |-> ReSeq(<<ReBnd, ReStr(<<"r","m">>), ReWs, ReStr(<<"-","r","f">>), ReBnd>>),
     reason |-> "Matched high-risk pattern: 'rm -rf'"],
    [rx |-> ReSeq(<<ReBnd, ReStr(<<"r","m">>), ReWs, ReStr(<<"-","f">>), ReWs,
                    ReLit("/"), ReOptWs, ReEol>>),
     reason |-> "Matched high-risk pattern: '\\brm\\s+-f\\s+/\\s*$'"],
    [rx |-> ReSeq(<<ReBnd, ReStr(<<"r","m">>), ReWs, ReStr(<<"-","f">>), ReWs,
                    ReStr(<<"/","*">>), ReOptWs, ReEol>>),
     reason |-> "Matched high-risk pattern: '\\brm\\s+-f\\s+/\\*\\s*$'"],
    [rx |-> ReSeq(<<ReBnd, ReStr(<<"r","m">>), ReWs, ReStr(<<"-","r","f">>), ReBnd, ReAny,
                    ReStr(<<"-","-","n","o","-","p","r","e","s","e","r","v","e","-","r","o","o","t">>),
                    ReBnd>>),
     reason |-> "Matched high-risk pattern: 'rm -rf --no-preserve-root'"],
    [rx |-> ReSeq(<<ReBnd, ReStr(<<"c","h","m","o","d">>), ReBnd, ReAny, ReCls("s"),
                    ReStr(<<"-","R">>), ReWs, ReStr(<<"7","7","7">>), ReWs,
                    ReLit("/"), ReOptWs, ReEol>>),
     reason |-> "Matched high-risk pattern: 'chmod -R 777 /'"],
    [rx |-> ReSeq(<<ReBnd, ReStr(<<"c","h","o","w","n">>), ReBnd, ReAny, ReCls("s"),
                    ReStr(<<"-","R">>), ReWs, RePlus(ReCls("S")), ReWs,
                    ReLit("/"), ReOptWs, ReEol>>),
     reason |-> "Matched high-risk pattern: 'chown -R * /'"]
>>

REP_DENY_AT == -10
REP_REVIEW_AT == -5

\* The indexes of the deny patterns that match the stripped command
DenyMatches(command) ==
    {i \in DOMAIN DENY_PATTERNS : ReSearch(DENY_PATTERNS[i].rx, Strip(command))}

MinOf(S) == CHOOSE x \in S : \A y \in S : x <= y

\* Mutation of evaluate_command_v2: the deny patterns are tried first
EvaluatePatternsFirst(command, reputation) ==
    IF DenyMatches(command) # {}
    THEN [decision |-> "deny", risk |-> "high", risk_score |-> 95,
          reason |-> DENY_PATTERNS[MinOf(DenyMatches(command))].reason]
    ELSE IF reputation <= REP_DENY_AT
    THEN [decision |-> "deny", risk |-> "high", risk_score |-> 99,
          reason |-> "Reputation too low"]
    ELSE IF reputation <= REP_REVIEW_AT
    THEN [decision |-> "review", risk |-> "medium", risk_score |-> 60,
          reason |-> "Reputation low"]
    ELSE [decision |-> "allow", risk |-> "low", risk_score |-> 5,
          reason |-> "No policy violations detected"]

\* Risk scores are kept in hundredths (0.99 is 99).
evaluate_command_v2(command, reputation) ==
    IF reputation <= REP_DENY_AT
    THEN [decision |-> "deny", risk |-> "high", risk_score |-> 99,
          reason |-> "Reputation too low"]
    ELSE IF reputation <= REP_REVIEW_AT
    THEN [decision |-> "review", risk |-> "medium", risk_score |-> 60,
          reason |-> "Reputation low"]
    ELSE IF DenyMatches(command) # {}
    THEN [decision |-> "deny", risk |-> "high", risk_score |-> 95,
          reason |-> DENY_PATTERNS[MinOf(DenyMatches(command))].reason]
    ELSE [decision |-> "allow", risk |-> "low", risk_score |-> 5,
          reason |-> "No policy violations detected"]

(***************************************************************************)
(* Inputs of the policy evaluator                                          *)
(***************************************************************************)
CmdRmRfRoot == <<"r","m"," ","-","r","f"," ","/">>
CmdRmRfStar == <<"r","m"," ","-","r","f"," ","/","*">>
CmdRmFRoot == <<"r","m"," ","-","f"," ","/">>
CmdRmFStar == <<"r","m"," ","-","f"," ","/","*">>
CmdRmFFile == <<"r","m"," ","-","f"," ","/","h","o","m","e","/","u","s","e","r","/","f","i","l","e",".","t","x","t">>
CmdLs == <<"l","s">>
CmdUpperRm == <<" ","R","M"," ","-","R","F"," ","/"," ">>
CmdMkfs == <<"m","k","f","s",".","e","x","t","4"," ","/","d","e","v","/","s","d","a">>
CmdMkfsx == <<"e","c","h","o"," ","m","k","f","s","x">>
CmdDd == <<"d","d"," ","i","f","=","/","d","e","v","/","z","e","r","o"," ","o","f","=","/","d","e","v","/","s","d","a">>
CmdWipefs == <<"w","i","p","e","f","s"," ","-","a">>
CmdChmod == <<"c","h","m","o","d"," ","-","R"," ","7","7","7"," ","/">>
CmdChown == <<"c","h","o","w","n"," ","-","R"," ","r","o","o","t"," ","/">>
CmdFarm == <<"f","a","r","m"," ","-","r","f">>
CmdNoPreserve == <<"r","m"," ","-","r","f"," ","-","-","n","o","-","p","r","e","s","e","r","v","e","-","r","o","o","t"," ","/">>

PolicyCommands ==
    {CmdRmRfRoot, CmdRmRfStar, CmdRmFRoot, CmdRmFStar, CmdRmFFile, CmdLs, CmdUpperRm,
     CmdMkfs, CmdMkfsx, CmdDd, CmdWipefs, CmdChmod, CmdChown, CmdFarm, CmdNoPreserve}

MaxNegRep == 12
MaxRep == 101
PolicyReputations == (0 - MaxNegRep) .. MaxRep

NoResult == [decision |-> "none"]

InitPolicyIdle ==
    /\ pol_cmd = <<>>
    /\ pol_rep = 0
    /\ pol_result = NoResult

\* One call evaluate_command_v2(command, reputation)
Evaluate ==
    /\ pol_result = NoResult
    /\ pol_result' = evaluate_command_v2(pol_cmd, pol_rep)
    /\ UNCHANGED <<pol_cmd, pol_rep>>
    /\ UNCHANGED <<auditVars, clockVars, probeVars, q_incidents, gwVars, opsVars, queueVars, threadVars>>

NextPolicy == Evaluate


(***************************************************************************)
(* Audit hash chain (sentinel_api.py)                                      *)
(***************************************************************************)
\* hashlib.sha256(x).hexdigest(): modelled as collision free
Sha256(x) == <<"sha256", x>>

\* hmac.new(secret, data, sha256).hexdigest()
Hmac(secret, data) == <<"hmac", secret, data>>

GENESIS == <<"GENESIS">>
NoHash == <<>>          \* an absent or empty state file
NoSig == <<"">>         \* the empty string returned when no secret is set

_audit_hmac(secret, data) == IF secret = "" THEN NoSig ELSE Hmac(secret, data)

\* Mutation of _read_prev_hash: the stored head is ignored
ReadPrevHashGenesis(state) == GENESIS

_read_prev_hash(state) == IF state = NoHash THEN GENESIS ELSE state

\* The keys of an entry that go into the hash
HashedKeys == {"ts", "client_ip", "agent_id", "command", "decision", "risk",
               "risk_score", "reason", "policy_version", "vt", "prev_hash"}

\* json.dumps(entry, sort_keys=True, ...) of the hashed keys of a record
EntryJson(rec) == <<"json", [k \in HashedKeys |-> rec[k]]>>

\* prev_hash + "|" + entry_json
ChainInput(prev, rec) == <<prev, "|", EntryJson(rec)>>

\* The record write_audit_log builds from the result dict and the stored head
AuditRecord(state, secret, ts, client_ip, result) ==
    LET prev_hash == _read_prev_hash(state)
        entry == [ts |-> ts, client_ip |-> client_ip, agent_id |-> result.agent_id,
                  command |-> result.command, decision |-> result.decision,
                  risk |-> result.risk, risk_score |-> result.risk_score,
                  reason |-> result.reason, policy_version |-> result.policy_version,
                  vt |-> result.vt, prev_hash |-> prev_hash]
        entry_hash == Sha256(ChainInput(prev_hash, entry))
    IN [k \in HashedKeys \cup {"hash", "sig"} |->
            IF k = "hash" THEN entry_hash
            ELSE IF k = "sig" THEN _audit_hmac(secret, entry_hash)
            ELSE entry[k]]

\* Mutation of VerifyLine: the recomputed hash is not compared
VerifyLineNoHash(rec, prev, secret) ==
    IF rec["prev_hash"] # prev THEN "prev_hash mismatch" ELSE ""

\* One line of verify_audit_chain: "" when the line passes, else the error
VerifyLine(rec, prev, secret) ==
    LET expected == Sha256(ChainInput(prev, rec))
    IN IF rec["prev_hash"] # prev THEN "prev_hash mismatch"
       ELSE IF rec["hash"] # expected THEN "hash mismatch"
       ELSE IF secret # "" /\ rec["sig"] # Hmac(secret, expected) THEN "sig mismatch"
       ELSE ""

RECURSIVE VerifyFrom(_, _, _, _)
VerifyFrom(file, line_no, prev, secret) ==
    IF line_no > Len(file) THEN [ok |-> TRUE, lines |-> Len(file), line |-> 0, error |-> ""]
    ELSE LET err == VerifyLine(file[line_no], prev, secret)
         IN IF err # ""
            THEN [ok |-> FALSE, lines |-> 0, line |-> line_no, error |-> err]
            ELSE VerifyFrom(file, line_no + 1, file[line_no]["hash"], secret)

\* verify_audit_chain(): lines = -1 stands for the answer "No audit file yet"
verify_audit_chain(exists, file, secret) ==
    IF ~exists THEN [ok |-> TRUE, lines |-> -1, line |-> 0, error |-> ""]
    ELSE VerifyFrom(file, 1, GENESIS, secret)

\* variable_timestamp(command, timestamp, agent_id)
variable_timestamp(command, timestamp, agent_id) == <<"vt", agent_id, timestamp, command>>

POLICY_VERSION == "v2"

NoTamper == [kind |-> "none", line |-> 0]

InitAuditIdle ==
    /\ audit_exists = FALSE
    /\ audit_file = <<>>
    /\ audit_state = NoHash
    /\ audit_head = NoHash
    /\ audit_secret = ""
    /\ audit_appends = 0
    /\ audit_stops = 0
    /\ tamper = NoTamper

MaxAudit == 3
MaxAuditTs == 2

AuditSecrets == {"", "k1"}

\* Result dicts handed to write_audit_log
AuditResults ==
    {[agent_id |-> "a1", command |-> CmdLs, decision |-> "allow", risk |-> "low",
      risk_score |-> 5, reason |-> "No policy violations detected",
      policy_version |-> POLICY_VERSION, vt |-> variable_timestamp(CmdLs, "t1", "a1")],
     [agent_id |-> "a2", command |-> CmdRmRfRoot, decision |-> "deny", risk |-> "high",
      risk_score |-> 95, reason |-> "Matched high-risk pattern: 'rm -rf'",
      policy_version |-> POLICY_VERSION, vt |-> variable_timestamp(CmdRmRfRoot, "t1", "a2")]}

\* write_audit_log(request, result), run to completion
WriteAudit(ts, result) ==
    LET record == AuditRecord(audit_state, audit_secret, ts, "10.0.0.1", result)
    IN /\ Len(audit_file) < MaxAudit
       /\ audit_exists' = TRUE
       /\ audit_file' = Append(audit_file, record)
       /\ audit_state' = record["hash"]
       /\ audit_head' = record["hash"]
       /\ audit_appends' = audit_appends + 1
       /\ UNCHANGED <<audit_secret, audit_stops, tamper>>
       /\ UNCHANGED <<polVars, queueVars, threadVars, clockVars, probeVars, q_incidents, gwVars, opsVars>>

\* The points at which write_audit_log can stop after the record is built:
\* before the line is appended, between the append and the write of
\* audit.state, between the writes of audit.state and audit_head.txt
AuditStopPoints == {"before_append", "after_append", "after_state"}

MaxAuditStops == 2

\* write_audit_log(request, result) that raises, or whose process stops, at
\* the given point: the writes before the point have happened
WriteAuditStops(ts, result, point) ==
    LET record == AuditRecord(audit_state, audit_secret, ts, "10.0.0.1", result)
    IN /\ Len(audit_file) < MaxAudit
       /\ audit_stops < MaxAuditStops
       /\ point \in AuditStopPoints
       /\ audit_exists' = (audit_exists \/ point # "before_append")
       /\ audit_file' = IF point = "before_append" THEN audit_file
                        ELSE Append(audit_file, record)
       /\ audit_state' = IF point = "after_state" THEN record["hash"] ELSE audit_state
       /\ audit_stops' = audit_stops + 1
       /\ UNCHANGED <<audit_head, audit_secret, audit_appends, tamper>>
       /\ UNCHANGED <<polVars, queueVars, threadVars, clockVars, probeVars, q_incidents, gwVars, opsVars>>

\* Values an editor of the file can put into a field
ForgedHash == <<"sha256", <<"forged">>>>

TamperValues(k) ==
    IF k \in {"hash", "prev_hash"}
    THEN {GENESIS, ForgedHash} \cup {audit_file[i]["hash"] : i \in DOMAIN audit_file}
    ELSE IF k \in {"ts", "risk_score"} THEN {0, 7}
    ELSE IF k = "command" THEN {CmdLs, CmdRmFFile}
    ELSE IF k = "vt" THEN {variable_timestamp(CmdLs, "t1", "a1"),
                           variable_timestamp(CmdLs, "t9", "a9")}
    ELSE IF k = "decision" THEN {"allow", "deny"}
    ELSE {"None", "forged"}

\* Somebody with access to the log directory changes one field of one line
TamperField(i, k, v) ==
    /\ tamper = NoTamper
    /\ i \in DOMAIN audit_file
    /\ k \in HashedKeys \cup {"hash"}
    /\ v \in TamperValues(k)
    /\ v # audit_file[i][k]
    /\ audit_file' = [audit_file EXCEPT ![i] = [@ EXCEPT ![k] = v]]
    /\ tamper' = [kind |-> "field", line |-> i]
    /\ UNCHANGED <<audit_exists, audit_state, audit_head, audit_secret, audit_appends,
                   audit_stops>>
    /\ UNCHANGED <<polVars, queueVars, threadVars, clockVars, probeVars, q_incidents, gwVars, opsVars>>

\* Somebody with access to the log directory swaps two lines
TamperSwap(i, j) ==
    /\ tamper = NoTamper
    /\ i \in DOMAIN audit_file
    /\ j \in DOMAIN audit_file
    /\ i < j
    /\ audit_file' = [audit_file EXCEPT ![i] = audit_file[j], ![j] = audit_file[i]]
    /\ tamper' = [kind |-> "swap", line |-> i]
    /\ UNCHANGED <<audit_exists, audit_state, audit_head, audit_secret, audit_appends,
                   audit_stops>>
    /\ UNCHANGED <<polVars, queueVars, threadVars, clockVars, probeVars, q_incidents, gwVars, opsVars>>

NextAudit ==
    \/ \E ts \in 1 .. MaxAuditTs, result \in AuditResults : WriteAudit(ts, result)
    \/ \E i \in 1 .. MaxAudit, k \in HashedKeys \cup {"hash"} :
          \E v \in TamperValues(k) : TamperField(i, k, v)
    \/ \E i, j \in 1 .. MaxAudit : TamperSwap(i, j)

\* The log written by a gateway whose appends can stop part-way
NextAuditStops ==
    \/ \E ts \in 1 .. MaxAuditTs, result \in AuditResults : WriteAudit(ts, result)
    \/ \E ts \in 1 .. MaxAuditTs, result \in AuditResults, point \in AuditStopPoints :
          WriteAuditStops(ts, result, point)

(***************************************************************************)
(* Clock                                                                   *)
(***************************************************************************)
MaxTime == 4

\* The clock starts above 0: the ledger reads updated_at <= 0 as "never updated"
InitClock == now = 1

(***************************************************************************)
(* Text and JSON values                                                    *)
(***************************************************************************)
\* A text is a tuple of tokens; a token is a word without white space or one
\* white-space character.  str.strip() is Strip on the tokens.
Txt(s) == IF s = "" THEN <<>> ELSE <<s>>

\* Python's None where a text is expected
NoneVal == <<"<None>">>

\* A JSON number where a text is expected, and the test that a value has
\* .strip()
NumberVal == <<"<number>">>
HasStrip(x) == x # NumberVal

\* (x or "")
OrEmpty(x) == IF x = NoneVal THEN <<>> ELSE x

\* (x or default)
OrDefault(x, default) == IF x = NoneVal \/ x = <<>> THEN default ELSE x

\* sub in text, for a sub that is one token
Contains(text, sub) == \E i \in DOMAIN text : text[i] = sub

\* str.lower() on the tokens
LowerTok(tok) == IF tok = "HIGH" THEN "high" ELSE tok
LowerTxt(text) == [i \in DOMAIN text |-> LowerTok(text[i])]

\* json.dumps(obj, sort_keys=True) and json.loads: a JSON text is the document
\* tagged as JSON; json.loads raises on any other text
jdump(obj) == <<"json", obj>>
IsJson(s) == Len(s) = 2 /\ s[1] = "json"
jload(s) == s[2]

\* A JSON dict, or None where a dict is expected
Dict(items) == [none |-> FALSE, items |-> items]
NoneDict == [none |-> TRUE, items |-> {}]

\* (d or {})
OrEmptyDict(d) == IF d.none \/ d.items = {} THEN Dict({}) ELSE d

\* A JSON object with named fields is a record; {} is the empty one
EmptyDict == <<>>

\* d.get(k), with default where the key is absent
Get(d, k, default) == IF k \in DOMAIN d THEN d[k] ELSE default

\* d[k] = v
Put(d, k, v) == (k :> v) @@ d

(***************************************************************************)
(* Health probe (worker_probe.py)                                          *)
(***************************************************************************)
FAIL_THRESHOLD == 2

\* parse_targets(PROBE_TARGETS): service name -> url
PROBE_TARGETS == [api |-> "http://api/health", db |-> "http://db/health"]
Services == DOMAIN PROBE_TARGETS

\* What http_probe can return: (ok, status, err)
ProbeOutcomes ==
    {[ok |-> TRUE,  status |-> "200", err |-> ""],
     [ok |-> FALSE, status |-> "500", err |-> "HTTPError"],
     [ok |-> FALSE, status |-> "",    err |-> "URLError"]}

MaxFailCount == 3
MaxIncidents == 2

\* The incident document emit_incident pushes
ProbeIncident(svc, url, status, error, ts) ==
    [incident_id |-> <<"inc", ts, svc>>, ts |-> ts, service |-> Txt(svc),
     kind |-> <<"api_", "unreachable">>, severity |-> Txt("high"),
     evidence |-> [url |-> Txt(url), status |-> Txt(status), error |-> Txt(error)]]

\* (r.get(state_key) or "unknown").strip()
PrevState(stored) == IF stored = "" THEN "unknown" ELSE stored

\* Mutation of StoredFailcount: the persisted counter is not read
StoredFailcountZero(stored) == 0

\* int(r.get(fc_key) or "0")
StoredFailcount(stored) == IF stored < 0 THEN 0 ELSE stored

\* Mutation of ShouldEmit: level triggered, emits whenever the state is fail
ShouldEmitLevel(prev_state, now_state) == now_state = "fail"

\* The edge trigger: emit only on the ok/unknown -> fail transition
ShouldEmit(prev_state, now_state) == now_state = "fail" /\ prev_state # "fail"

InitProbeIdle ==
    /\ probe_state = [s \in Services |-> ""]
    /\ probe_failcount = [s \in Services |-> -1]
    /\ probe_emitted = [s \in Services |-> 0]
    /\ probe_edges = [s \in Services |-> 0]
    /\ probe_run = [s \in Services |-> 0]

\* One pass of the loop body of run() for one target
ProbeCycle(svc, res) ==
    LET prev_state == PrevState(probe_state[svc])
        failcount  == IF res.ok THEN 0 ELSE StoredFailcount(probe_failcount[svc]) + 1
        now_state  == IF res.ok THEN "ok"
                      ELSE IF failcount >= FAIL_THRESHOLD THEN "fail" ELSE "ok"
        emit       == ShouldEmit(prev_state, now_state)
    IN /\ failcount <= MaxFailCount
       /\ emit => Len(q_incidents) + Len(mgr_log) < MaxIncidents
       /\ probe_failcount' = [probe_failcount EXCEPT ![svc] = failcount]
       /\ q_incidents' =
            IF emit
            THEN Append(q_incidents,
                        jdump(ProbeIncident(svc, PROBE_TARGETS[svc], res.status, res.err, now)))
            ELSE q_incidents
       /\ probe_state' = [probe_state EXCEPT ![svc] = now_state]
       /\ probe_emitted' = [probe_emitted EXCEPT ![svc] = @ + (IF emit THEN 1 ELSE 0)]
       /\ probe_edges' = [probe_edges EXCEPT ![svc] =
            @ + (IF prev_state \in {"unknown", "ok"} /\ now_state = "fail" THEN 1 ELSE 0)]
       /\ probe_run' = [probe_run EXCEPT ![svc] = IF res.ok THEN 0 ELSE @ + 1]

ProbeStep(svc, res) ==
    /\ ProbeCycle(svc, res)
    /\ UNCHANGED <<polVars, queueVars, threadVars, auditVars, clockVars, gwVars, opsVars>>

\* Time passes
Tick ==
    /\ now < MaxTime
    /\ now' = now + 1
    /\ UNCHANGED <<polVars, queueVars, threadVars, auditVars, probeVars, q_incidents, gwVars, opsVars>>

NextProbe ==
    \/ \E svc \in Services, res \in ProbeOutcomes : ProbeStep(svc, res)
    \/ Tick

(***************************************************************************)
(* Integer ledger (sentinel_core/reputation.py)                            *)
(***************************************************************************)
DECAY_PERIOD_SEC == 2
DECAY_STEP == 1

Max2(a, b) == IF a >= b THEN a ELSE b
Min2(a, b) == IF a <= b THEN a ELSE b

\* _decay_value without the max(0, .) and min(0, .)
DecayPastZero(rep, elapsed_sec) ==
    IF DECAY_PERIOD_SEC <= 0 \/ DECAY_STEP <= 0 THEN rep
    ELSE LET steps == elapsed_sec \div DECAY_PERIOD_SEC
         IN IF steps <= 0 THEN rep
            ELSE IF rep > 0 THEN rep - steps * DECAY_STEP
            ELSE IF rep < 0 THEN rep + steps * DECAY_STEP
            ELSE rep

_decay_value(rep, elapsed_sec) ==
    IF DECAY_PERIOD_SEC <= 0 \/ DECAY_STEP <= 0 THEN rep
    ELSE LET steps == elapsed_sec \div DECAY_PERIOD_SEC
         IN IF steps <= 0 THEN rep
            ELSE IF rep > 0 THEN Max2(0, rep - steps * DECAY_STEP)
            ELSE IF rep < 0 THEN Min2(0, rep + steps * DECAY_STEP)
            ELSE rep

_apply_decay(state, t) ==
    IF state.updated_at <= 0 THEN state
    ELSE LET elapsed == t - state.updated_at
         IN IF elapsed <= 0 THEN state
            ELSE LET decayed == _decay_value(state.reputation, elapsed)
                 IN IF decayed # state.reputation
                    THEN [state EXCEPT !.reputation = decayed, !.updated_at = t]
                    ELSE state

\* An agent without an entry in db["agents"]
NoLedgerState ==
    [present |-> FALSE, reputation |-> 0, allowed |-> 0, blocked |-> 0, reviewed |-> 0,
     last_decision |-> "unknown", updated_at |-> 0]

\* get_state(db, agent_id): the db after the call (the entry is created and
\* decayed in place); the state returned is the agent's entry of this db
get_state(db, agent_id, t) ==
    LET state == IF db[agent_id].present THEN db[agent_id]
                 ELSE [NoLedgerState EXCEPT !.present = TRUE, !.updated_at = t]
    IN [db EXCEPT ![agent_id] = _apply_decay(state, t)]

\* (decision or "").lower().strip() on the decisions the model passes
NormDecision(decision) ==
    CASE decision = "ALLOW"  -> "allow"
      [] decision = " Deny " -> "deny"
      [] OTHER               -> decision

\* update_reputation without the decay of the entry it updates
UpdateWithoutDecay(db, agent_id, decision, t) ==
    LET state == IF db[agent_id].present THEN db[agent_id]
                 ELSE [NoLedgerState EXCEPT !.present = TRUE, !.updated_at = t]
        d == NormDecision(decision)
        updated ==
            IF d = "allow"
            THEN [state EXCEPT !.allowed = @ + 1, !.reputation = @ + 1,
                               !.last_decision = "allow"]
            ELSE IF d = "deny"
            THEN [state EXCEPT !.blocked = @ + 1, !.reputation = @ - 2,
                               !.last_decision = "deny"]
            ELSE [state EXCEPT !.reviewed = @ + 1, !.reputation = @ - 1,
                               !.last_decision = "review"]
    IN [db EXCEPT ![agent_id] = [updated EXCEPT !.updated_at = t]]

\* update_reputation(db, agent_id, decision): the db after the call
update_reputation(db, agent_id, decision, t) ==
    LET db1 == get_state(db, agent_id, t)
        state == db1[agent_id]
        d == NormDecision(decision)
        updated ==
            IF d = "allow"
            THEN [state EXCEPT !.allowed = @ + 1, !.reputation = @ + 1,
                               !.last_decision = "allow"]
            ELSE IF d = "deny"
            THEN [state EXCEPT !.blocked = @ + 1, !.reputation = @ - 2,
                               !.last_decision = "deny"]
            ELSE [state EXCEPT !.reviewed = @ + 1, !.reputation = @ - 1,
                               !.last_decision = "review"]
    IN [db1 EXCEPT ![agent_id] = [updated EXCEPT !.updated_at = t]]

\* The decisions handed to update_reputation: the three of the policy, two
\* that differ from them in case and white space, an unknown and an empty one
LedgerDecisions == {"allow", "deny", "review", "ALLOW", " Deny ", "escalate", ""}

MaxLedgerOps == 2
MaxLedgerTime == 5

\* A caller reads the entry of an agent: get_state decays it in place
LedgerRead(agent_id) ==
    /\ Len(ledger_log) < MaxLedgerOps
    /\ ledger' = get_state(ledger, agent_id, now)
    /\ ledger_log' = Append(ledger_log,
          [op |-> "read", agent_id |-> agent_id, decision |-> "", at |-> now,
           before |-> ledger, after |-> ledger'])
    /\ UNCHANGED <<gw_cfg, rate_events, replay_redis, replay_sqlite, oracle, gw_last,
                   gw_passed, rate_log, gw_requests>>
    /\ UNCHANGED <<polVars, queueVars, threadVars, auditVars, clockVars, probeVars, q_incidents, opsVars>>

\* A caller updates the entry of an agent
LedgerUpdate(agent_id, decision) ==
    /\ Len(ledger_log) < MaxLedgerOps
    /\ ledger' = update_reputation(ledger, agent_id, decision, now)
    /\ ledger_log' = Append(ledger_log,
          [op |-> "update", agent_id |-> agent_id, decision |-> decision, at |-> now,
           before |-> ledger, after |-> ledger'])
    /\ UNCHANGED <<gw_cfg, rate_events, replay_redis, replay_sqlite, oracle, gw_last,
                   gw_passed, rate_log, gw_requests>>
    /\ UNCHANGED <<polVars, queueVars, threadVars, auditVars, clockVars, probeVars, q_incidents, opsVars>>

\* Time passes between the calls, up to several decay periods
LedgerTick ==
    /\ now < MaxLedgerTime
    /\ now' = now + 1
    /\ UNCHANGED <<polVars, queueVars, threadVars, auditVars, probeVars, q_incidents, gwVars, opsVars>>

\* The agents that send requests
Agents == {"a1", "a2"}

NextLedger ==
    \/ \E agent_id \in Agents : LedgerRead(agent_id)
    \/ \E agent_id \in Agents, decision \in LedgerDecisions : LedgerUpdate(agent_id, decision)
    \/ LedgerTick

(***************************************************************************)
(* Score oracle (reputation_redis.py), scores in hundredths                *)
(***************************************************************************)
\* get_rep: 1.0 when the key is unset
get_rep(store, agent_id) == IF store[agent_id] < 0 THEN 100 ELSE store[agent_id]

\* set_rep clamps to [0, 1]
ClampScore(x) == Max2(0, Min2(100, x))

OutcomeDelta(decision) ==
    CASE decision = "allow"  -> 1
      [] decision = "review" -> -3
      [] decision = "deny"   -> -8
      [] OTHER               -> 0

\* apply_outcome(agent_id, decision): the store after the call
apply_outcome(store, agent_id, decision) ==
    IF decision \in {"allow", "review", "deny"}
    THEN [store EXCEPT ![agent_id] = ClampScore(get_rep(store, agent_id) + OutcomeDelta(decision))]
    ELSE store

(***************************************************************************)
(* Gateway /analyze (sentinel_api.py)                                      *)
(***************************************************************************)
TIME_WINDOW_SEC == 2
RATE_LIMIT_MAX == 2
RATE_LIMIT_WINDOW_SEC == 2
REP_AUTO_DENY == 20
REP_AUTO_REVIEW == 40

GwCommands == {CmdLs, CmdRmFRoot}
GwReputations == {0}

\* Client-supplied reputations and stored oracle scores on both sides of every
\* threshold of the two gates; -1 is the unset key
GateReputations == {0, REP_REVIEW_AT, REP_DENY_AT}
GateScores == {-1, 0, REP_AUTO_DENY - 1, REP_AUTO_DENY, REP_AUTO_REVIEW - 1, REP_AUTO_REVIEW, 100}

\* evaluate_command_v2 on the requests the gateway model receives
PolicyTable ==
    [c \in GwCommands, rp \in GwReputations \cup GateReputations |-> evaluate_command_v2(c, rp)]

\* Start-up configurations: signed, unsigned, frozen
GatewayConfigs ==
    {[freeze |-> FALSE, api_key |-> "k", signing_secret |-> "s", redis_ok |-> TRUE],
     [freeze |-> FALSE, api_key |-> "k", signing_secret |-> "",  redis_ok |-> TRUE],
     [freeze |-> TRUE,  api_key |-> "k", signing_secret |-> "s", redis_ok |-> TRUE]}

SignedConfigs == {c \in GatewayConfigs : ~c.freeze /\ c.signing_secret # ""}
UnsignedConfigs == {c \in GatewayConfigs : c.freeze \/ c.signing_secret = ""}

\* Requests served in a run of the rate-limit specification, and in a run of
\* the full gateway specification
MaxRequests == 4
MaxGwRequests == 2

\* X-Timestamp-Unix header values: decimal integers, "nan", and text that
\* float() rejects; "" is the missing header
TsHeaders ==
    {[form |-> "int", n |-> k] : k \in 1 .. MaxTime} \cup
    {[form |-> "nan", n |-> 0], [form |-> "bad", n |-> 0], [form |-> "none", n |-> 0]}

\* abs(_now() - ts_unix) > TIME_WINDOW_SEC; every comparison with nan is false
OutsideWindow(t, ts) ==
    IF ts.form = "nan" THEN FALSE
    ELSE (IF t >= ts.n THEN t - ts.n ELSE ts.n - t) > TIME_WINDOW_SEC

\* _sign_payload(payload) under a secret
_sign_payload(secret, payload) == Hmac(secret, <<"json", payload>>)

SignedPayload(req) ==
    [agent_id |-> req.agent_id, command |-> req.command, timestamp |-> req.timestamp,
     ts_unix |-> req.x_timestamp_unix]

NoHeader == <<>>

\* A well-formed request of a client that holds the API key and the secret
GoodRequest(a, c, rp, ts) ==
    [agent_id |-> a, command |-> c, timestamp |-> "t1", reputation |-> rp,
     x_api_key |-> "k", x_timestamp_unix |-> ts, sigkey |-> "s"]

IntTs(k) == [form |-> "int", n |-> k]

\* Well-formed requests: every agent and command at the first and the last
\* instant, and one request whose timestamp header is "nan"
GoodRequests ==
    {GoodRequest(a, c, rp, IntTs(k)) :
        a \in Agents, c \in GwCommands, rp \in GwReputations, k \in {1, MaxTime}}
    \cup {GoodRequest("a1", CmdLs, 0, [form |-> "nan", n |-> 0])}

\* Requests with one defect: a wrong API key, no signature header, a signature
\* made with another secret, a timestamp header that is missing or not a number
DefectRequests ==
    LET base == {GoodRequest(a, CmdLs, 0, IntTs(1)) : a \in Agents}
    IN {[r EXCEPT !.x_api_key = "bad"] : r \in base}
       \cup {[r EXCEPT !.sigkey = k] : r \in base, k \in {"", "other"}}
       \cup {[r EXCEPT !.x_timestamp_unix = h] :
                r \in base, h \in {h \in TsHeaders : h.form \in {"bad", "none"}}}

Requests == GoodRequests \cup DefectRequests

\* Requests without signature headers, with and without the API key
RateRequests ==
    {[agent_id |-> a, command |-> CmdLs, timestamp |-> "t1", reputation |-> 0,
      x_api_key |-> k, x_timestamp_unix |-> [form |-> "none", n |-> 0], sigkey |-> ""] :
        a \in Agents, k \in {"k", "bad"}}

XSignature(req) ==
    IF req.sigkey = "" THEN NoHeader ELSE _sign_payload(req.sigkey, SignedPayload(req))

\* _replay_nonce(agent_id, command, ts_unix)
_replay_nonce(agent_id, command, ts_unix) == Sha256(<<agent_id, "|", command, "|", ts_unix>>)

\* A Redis key set with EX ttl at time e.at still exists at time t
RedisLive(e, t, ttl) == t <= e.at + ttl

\* replay_db.check_and_set: the DELETE of old rows is committed only together
\* with a successful INSERT
check_and_set(rows, nonce, ttl_seconds, t) ==
    LET cutoff == t - ttl_seconds
        kept == {e \in rows : ~(e.at < cutoff)}
    IN IF \E e \in kept : e.nonce = nonce
       THEN [ok |-> FALSE, rows |-> rows]
       ELSE [ok |-> TRUE, rows |-> kept \cup {[nonce |-> nonce, at |-> t]}]

\* _replay_check_and_set: Redis SET NX EX when Redis answered at start-up and
\* answers now, else the sqlite table
_replay_check_and_set(redis_ok, redis_raises, keys, rows, nonce, t) ==
    IF redis_ok /\ ~redis_raises
    THEN LET live == {e \in keys : RedisLive(e, t, TIME_WINDOW_SEC)}
         IN IF \E e \in live : e.nonce = nonce
            THEN [ok |-> FALSE, keys |-> keys, rows |-> rows]
            ELSE [ok |-> TRUE, keys |-> live \cup {[nonce |-> nonce, at |-> t]}, rows |-> rows]
    ELSE LET res == check_and_set(rows, nonce, TIME_WINDOW_SEC, t)
         IN [ok |-> res.ok, keys |-> keys, rows |-> res.rows]

\* _rate_limit: the deque after dropping the entries older than the window
RECURSIVE PruneOld(_, _)
PruneOld(q, cutoff) ==
    IF q # <<>> /\ Head(q) < cutoff THEN PruneOld(Tail(q), cutoff) ELSE q

\* Mutation of RateLimited: one more admission than RATE_LIMIT_MAX
RateLimitedOffByOne(q) == Len(q) > RATE_LIMIT_MAX

RateLimited(q) == Len(q) >= RATE_LIMIT_MAX

\* _rate_limit(agent_id): whether the call raises 429, and the deque afterwards
_rate_limit(q, t) ==
    IF RATE_LIMIT_MAX <= 0 THEN [limited |-> FALSE, q |-> q]
    ELSE LET pruned == PruneOld(q, t - RATE_LIMIT_WINDOW_SEC)
         IN IF RateLimited(pruned)
            THEN [limited |-> TRUE, q |-> pruned]
            ELSE [limited |-> FALSE, q |-> Append(pruned, t)]

\* Mutation of ScoreGate: the gate is applied whatever the policy decision
ScoreGateEveryDecision(res, rep_score) ==
    IF rep_score < REP_AUTO_DENY
    THEN [decision |-> "deny", risk |-> "high", risk_score |-> Max2(res.risk_score, 95),
          reason |-> "Reputation gate: deny"]
    ELSE IF rep_score < REP_AUTO_REVIEW
    THEN [decision |-> "review", risk |-> "medium", risk_score |-> Max2(res.risk_score, 65),
          reason |-> "Reputation gate: review"]
    ELSE res

\* The score gate applied after pattern evaluation
ScoreGate(res, rep_score) ==
    IF res.decision = "allow" /\ rep_score < REP_AUTO_DENY
    THEN [decision |-> "deny", risk |-> "high", risk_score |-> Max2(res.risk_score, 95),
          reason |-> "Reputation gate: deny"]
    ELSE IF res.decision = "allow" /\ rep_score < REP_AUTO_REVIEW
    THEN [decision |-> "review", risk |-> "medium", risk_score |-> Max2(res.risk_score, 65),
          reason |-> "Reputation gate: review"]
    ELSE res

NoRequest ==
    [agent_id |-> "", nonce |-> NoHash, at |-> 0, status |-> 0, stage |-> "none",
     decision |-> "none", seen_before |-> FALSE, policy_decision |-> "none",
     rep_score_before |-> 0, failed |-> {}, answer |-> <<>>]

InitGatewayIdle ==
    /\ gw_cfg = [freeze |-> FALSE, api_key |-> "k", signing_secret |-> "s", redis_ok |-> TRUE]
    /\ rate_events = [a \in Agents |-> <<>>]
    /\ replay_redis = {}
    /\ replay_sqlite = {}
    /\ ledger = [a \in Agents |-> NoLedgerState]
    /\ oracle = [a \in Agents |-> -1]
    /\ gw_last = NoRequest
    /\ gw_passed = {}
    /\ rate_log = [a \in Agents |-> <<>>]
    /\ gw_requests = 0
    /\ ledger_log = <<>>

\* The checks of analyze() a request fails when each is applied by itself to
\* the request and the stores as they are on receipt
FailedChecks(req, rl, replay) ==
    {ck \in {"rate", "apikey", "nosig", "badts", "window", "replay", "badsig"} :
        CASE ck = "rate"   -> rl.limited
          [] ck = "apikey" -> gw_cfg.api_key # "" /\ req.x_api_key # gw_cfg.api_key
          [] ck = "nosig"  -> XSignature(req) = NoHeader \/ req.x_timestamp_unix.form = "none"
          [] ck = "badts"  -> req.x_timestamp_unix.form = "bad"
          [] ck = "window" -> /\ req.x_timestamp_unix.form \in {"int", "nan"}
                              /\ OutsideWindow(now, req.x_timestamp_unix)
          [] ck = "replay" -> ~replay.ok
          [] ck = "badsig" -> _sign_payload(gw_cfg.signing_secret, SignedPayload(req))
                                 # XSignature(req)}

\* Mutation of AnalyzeStage: the HMAC is verified before the replay check
AnalyzeStageHmacFirst(req, rl, replay) ==
    IF gw_cfg.freeze THEN "frozen"
    ELSE IF rl.limited THEN "rate"
    ELSE IF gw_cfg.api_key # "" /\ req.x_api_key # gw_cfg.api_key THEN "apikey"
    ELSE IF gw_cfg.signing_secret = "" THEN "ok"
    ELSE IF XSignature(req) = NoHeader \/ req.x_timestamp_unix.form = "none" THEN "nosig"
    ELSE IF req.x_timestamp_unix.form = "bad" THEN "badts"
    ELSE IF OutsideWindow(now, req.x_timestamp_unix) THEN "window"
    ELSE IF _sign_payload(gw_cfg.signing_secret, SignedPayload(req)) # XSignature(req)
         THEN "badsig"
    ELSE IF ~replay.ok THEN "replay"
    ELSE "ok"

\* The stage at which analyze() stops: the first failing check, or "ok"
AnalyzeStage(req, rl, replay) ==
    IF gw_cfg.freeze THEN "frozen"
    ELSE IF rl.limited THEN "rate"
    ELSE IF gw_cfg.api_key # "" /\ req.x_api_key # gw_cfg.api_key THEN "apikey"
    ELSE IF gw_cfg.signing_secret = "" THEN "ok"
    ELSE IF XSignature(req) = NoHeader \/ req.x_timestamp_unix.form = "none" THEN "nosig"
    ELSE IF req.x_timestamp_unix.form = "bad" THEN "badts"
    ELSE IF OutsideWindow(now, req.x_timestamp_unix) THEN "window"
    ELSE IF ~replay.ok THEN "replay"
    ELSE IF _sign_payload(gw_cfg.signing_secret, SignedPayload(req)) # XSignature(req)
         THEN "badsig"
    ELSE "ok"

StatusOf(stage) ==
    CASE stage = "frozen" -> 503
      [] stage = "rate"   -> 429
      [] stage \in {"apikey", "nosig", "window", "badsig"} -> 401
      [] stage = "badts"  -> 400
      [] stage = "replay" -> 409
      [] stage = "ok"     -> 200

\* Mutation of StagesBeforeRateLimit: the rate limit is applied before the
\* freeze test
StagesBeforeRateLimitNone == {}

StagesBeforeRateLimit == {"frozen"}
StagesBeforeReplay == {"frozen", "rate", "apikey", "nosig", "badts", "window"}

\* POST /analyze, served from receipt to response; audit_stop is the point at
\* which the write_audit_log call before the return raises ("none": it
\* completes). The exception is not caught in analyze(), and the application
\* registers no exception handler, so the framework answers 500 without a
\* payload
AnalyzeWith(req, redis_raises, audit_stop) ==
    LET a == req.agent_id
        rl == _rate_limit(rate_events[a], now)
        nonce == _replay_nonce(a, req.command, req.x_timestamp_unix)
        replay == _replay_check_and_set(gw_cfg.redis_ok, redis_raises, replay_redis,
                                        replay_sqlite, nonce, now)
        stage == AnalyzeStage(req, rl, replay)
        rate_reached == stage \notin StagesBeforeRateLimit
        replay_reached == gw_cfg.signing_secret # "" /\ stage \notin StagesBeforeReplay
        policy == PolicyTable[req.command, req.reputation]
        rep_score_before == get_rep(oracle, a)
        final == ScoreGate(policy, rep_score_before)
        body == [agent_id |-> a, command |-> req.command, decision |-> final.decision,
                 risk |-> final.risk, risk_score |-> final.risk_score,
                 reason |-> final.reason, policy_version |-> POLICY_VERSION,
                 vt |-> variable_timestamp(req.command, req.timestamp, a)]
        record == AuditRecord(audit_state, audit_secret, now, "10.0.0.1", body)
        raised == stage = "ok" /\ audit_stop # "none"
    IN /\ gw_requests < MaxRequests
       /\ gw_requests' = gw_requests + 1
       /\ rate_events' = IF rate_reached THEN [rate_events EXCEPT ![a] = rl.q] ELSE rate_events
       /\ rate_log' = IF rate_reached /\ RATE_LIMIT_MAX > 0
                      THEN [rate_log EXCEPT ![a] = Append(@, [at |-> now, admitted |-> ~rl.limited])]
                      ELSE rate_log
       /\ replay_redis' = IF replay_reached THEN replay.keys ELSE replay_redis
       /\ replay_sqlite' = IF replay_reached THEN replay.rows ELSE replay_sqlite
       /\ gw_passed' = IF replay_reached /\ replay.ok
                       THEN gw_passed \cup {[nonce |-> nonce, at |-> now,
                                             accepted |-> stage = "ok" /\ ~raised]}
                       ELSE gw_passed
       /\ gw_last' = [agent_id |-> a, nonce |-> IF replay_reached THEN nonce ELSE NoHash, at |-> now,
                      status |-> IF raised THEN 500 ELSE StatusOf(stage),
                      stage |-> stage,
                      decision |-> IF stage = "ok" /\ ~raised THEN final.decision ELSE "none",
                      seen_before |-> replay_reached /\ \E p \in gw_passed :
                                          p.nonce = nonce /\ now - p.at <= TIME_WINDOW_SEC,
                      policy_decision |-> IF stage = "ok" THEN policy.decision ELSE "none",
                      rep_score_before |-> IF stage = "ok" THEN rep_score_before ELSE 0,
                      failed |-> FailedChecks(req, rl, replay),
                      answer |-> <<>>]
       /\ IF stage = "ok"
          THEN /\ ledger' = update_reputation(get_state(ledger, a, now), a, final.decision, now)
               /\ oracle' = apply_outcome(oracle, a, final.decision)
               /\ audit_exists' = (audit_exists \/ audit_stop # "before_append")
               /\ audit_file' = IF audit_stop = "before_append" THEN audit_file
                                ELSE Append(audit_file, record)
               /\ audit_state' = IF audit_stop \in {"none", "after_state"}
                                 THEN record["hash"] ELSE audit_state
               /\ audit_head' = IF audit_stop = "none" THEN record["hash"] ELSE audit_head
               /\ audit_appends' = IF raised THEN audit_appends ELSE audit_appends + 1
               /\ audit_stops' = IF raised THEN audit_stops + 1 ELSE audit_stops
               /\ UNCHANGED <<audit_secret, tamper>>
          ELSE UNCHANGED <<ledger, oracle, auditVars>>
       /\ UNCHANGED <<gw_cfg, ledger_log, polVars, queueVars, threadVars, clockVars, probeVars, q_incidents, opsVars>>

Analyze(req, redis_raises) == AnalyzeWith(req, redis_raises, "none")

AnalyzeAny ==
    /\ gw_requests < MaxGwRequests
    /\ \E req \in Requests, redis_raises \in BOOLEAN : Analyze(req, redis_raises)

NextGateway ==
    \/ AnalyzeAny
    \/ Tick

AnalyzeUnsigned == \E req \in RateRequests : Analyze(req, FALSE)

\* Requests of clients that hold the API key, with every command and
\* client-supplied reputation
GateRequests ==
    {GoodRequest(a, c, rp, IntTs(1)) : a \in Agents, c \in GwCommands, rp \in GateReputations}

AnalyzeGate ==
    /\ gw_requests < MaxGwRequests
    /\ \E req \in GateRequests : Analyze(req, FALSE)

\* The answer of a route other than /analyze, recorded as the last response
RouteAnswer(route, agent_id, code, answer) ==
    /\ gw_last' = [NoRequest EXCEPT !.agent_id = agent_id, !.at = now, !.status = code,
                                    !.stage = route, !.answer = answer]
    /\ UNCHANGED <<gw_cfg, rate_events, replay_redis, replay_sqlite, ledger, oracle,
                   gw_passed, rate_log, gw_requests, ledger_log>>
    /\ UNCHANGED <<polVars, queueVars, threadVars, auditVars, clockVars, probeVars, q_incidents, opsVars>>

\* GET /health
health ==
    RouteAnswer("health", "", 200,
                [status |-> "ok", policy_version |-> POLICY_VERSION, global_freeze |-> gw_cfg.freeze,
                 replay_backend |-> IF gw_cfg.redis_ok THEN "redis" ELSE "sqlite"])

\* GET /stats
stats ==
    RouteAnswer("stats", "", 200,
                [policy_version |-> POLICY_VERSION, global_freeze |-> gw_cfg.freeze,
                 replay_backend |-> IF gw_cfg.redis_ok THEN "redis" ELSE "sqlite"])

\* get_audit_head()
get_audit_head ==
    <<_read_prev_hash(audit_state), _audit_hmac(audit_secret, _read_prev_hash(audit_state))>>

\* GET /audit/verify
audit_verify ==
    RouteAnswer("audit_verify", "", 200, verify_audit_chain(audit_exists, audit_file, audit_secret))

\* GET /audit/head
AuditHeadRoute == RouteAnswer("audit_head", "", 200, get_audit_head)

\* The signed payload and the signature header of a status request
StatusPayload(req) == [agent_id |-> req.agent_id, ts_unix |-> req.x_timestamp_unix]

StatusSignature(req) ==
    IF req.sigkey = "" THEN NoHeader ELSE _sign_payload(req.sigkey, StatusPayload(req))

\* The check at which status() stops, or "ok"
StatusStage(req) ==
    IF gw_cfg.api_key # "" /\ req.x_api_key # gw_cfg.api_key THEN "apikey"
    ELSE IF gw_cfg.signing_secret = "" THEN "ok"
    ELSE IF StatusSignature(req) = NoHeader \/ req.x_timestamp_unix.form = "none" THEN "nosig"
    ELSE IF req.x_timestamp_unix.form = "bad" THEN "badts"
    ELSE IF OutsideWindow(now, req.x_timestamp_unix) THEN "window"
    ELSE IF _sign_payload(gw_cfg.signing_secret, StatusPayload(req)) # StatusSignature(req)
         THEN "badsig"
    ELSE "ok"

\* The body of a status answer
StatusBody(agent_id) ==
    [audit |-> get_audit_head, server_time_unix |-> now,
     reputation |-> get_state(ledger, agent_id, now)[agent_id],
     rep_score |-> get_rep(oracle, agent_id),
     recent |-> Len(rate_events[agent_id]),
     remaining |-> Max2(RATE_LIMIT_MAX - Len(rate_events[agent_id]), 0)]

\* GET /api/v1/status/{agent_id}
StatusRoute(req) ==
    LET stage == StatusStage(req)
    IN RouteAnswer("status", req.agent_id, StatusOf(stage),
                   IF stage = "ok" THEN StatusBody(req.agent_id) ELSE <<stage>>)

\* The process is started again with GLOBAL_FREEZE set or cleared: the
\* in-memory rate windows are empty, the files and the Redis keys stay
Restart(freeze) ==
    /\ gw_cfg.freeze # freeze
    /\ gw_cfg' = [gw_cfg EXCEPT !.freeze = freeze]
    /\ rate_events' = [a \in Agents |-> <<>>]
    /\ UNCHANGED <<replay_redis, replay_sqlite, ledger, oracle, gw_last, gw_passed, rate_log,
                   gw_requests, ledger_log>>
    /\ UNCHANGED <<polVars, queueVars, threadVars, auditVars, clockVars, probeVars, q_incidents, opsVars>>

\* Requests to /analyze and to the status route around a freeze
FreezeRequests ==
    {GoodRequest("a1", c, 0, IntTs(1)) : c \in GwCommands}
    \cup {[GoodRequest("a1", CmdLs, 0, IntTs(1)) EXCEPT !.x_api_key = "bad"]}

AnalyzeFreeze ==
    /\ gw_requests < MaxGwRequests
    /\ \E req \in FreezeRequests : Analyze(req, FALSE)

NextFreeze ==
    \/ AnalyzeFreeze
    \/ health
    \/ stats
    \/ audit_verify
    \/ AuditHeadRoute
    \/ \E req \in FreezeRequests : StatusRoute(req)
    \/ \E freeze \in BOOLEAN : Restart(freeze)
    \/ Tick

\* Requests of one agent with every combination of API key, signature and
\* timestamp header
OrderRequests ==
    {[GoodRequest("a1", CmdLs, 0, ts) EXCEPT !.x_api_key = k, !.sigkey = sk] :
        k \in {"k", "bad"}, sk \in {"s", "", "other"},
        ts \in {IntTs(1), IntTs(MaxTime), [form |-> "bad", n |-> 0], [form |-> "none", n |-> 0]}}

MaxOrderRequests == 3

AnalyzeOrder ==
    /\ gw_requests < MaxOrderRequests
    /\ \E req \in OrderRequests : Analyze(req, FALSE)

NextOrder ==
    \/ AnalyzeOrder
    \/ Tick

NextGate ==
    \/ AnalyzeGate
    \/ Tick

\* Requests of one client with every timestamp header from the first to the
\* last instant, correctly signed and signed with another secret
ReplayRequests ==
    {[GoodRequest("a1", c, 0, IntTs(k)) EXCEPT !.sigkey = sk] :
        c \in GwCommands, k \in 1 .. MaxTime, sk \in {"s", "other"}}

AnalyzeReplay ==
    /\ gw_requests < MaxGwRequests
    /\ \E req \in ReplayRequests : Analyze(req, FALSE)

NextReplay ==
    \/ AnalyzeReplay
    \/ Tick

\* Requests of key-holding clients to a gateway whose audit append can raise
AnalyzeAuditFails ==
    /\ gw_requests < MaxGwRequests
    /\ \E req \in GateRequests, audit_stop \in {"none"} \cup AuditStopPoints :
          AnalyzeWith(req, FALSE, audit_stop)

NextAuditFail ==
    \/ AnalyzeAuditFails
    \/ Tick

NextRate ==
    \/ AnalyzeUnsigned
    \/ Tick

(***************************************************************************)
(* Action digest (ops_digest.py)                                           *)
(***************************************************************************)
\* _canon: compact JSON with sorted keys
_canon(obj) == jdump(obj)

\* Mutation of digest_action: the reason is hashed as well
DigestWithReason(action) ==
    Sha256(_canon([type |-> Strip(OrEmpty(Get(action, "type", NoneVal))),
                   target |-> Strip(OrEmpty(Get(action, "target", NoneVal))),
                   params |-> OrEmptyDict(Get(action, "params", NoneDict)),
                   reason |-> Get(action, "reason", NoneVal)]))

\* digest_action: the hash of the stripped type, the stripped target and the
\* params, with None read as "" and as {}
digest_action(action) ==
    Sha256(_canon([type |-> Strip(OrEmpty(Get(action, "type", NoneVal))),
                   target |-> Strip(OrEmpty(Get(action, "target", NoneVal))),
                   params |-> OrEmptyDict(Get(action, "params", NoneDict))]))

(***************************************************************************)
(* Redis keys with a time to live                                          *)
(***************************************************************************)
\* EXISTS key at time t: the key was set and has not expired
KeyExists(keys, k, t) == \E e \in keys : e.key = k /\ t <= e.exp

\* SET key value EX ttl at time t; expired keys are gone
SetEx(keys, k, ttl, t) ==
    {e \in keys : e.key # k /\ t <= e.exp} \cup {[key |-> k, exp |-> t + ttl]}

(***************************************************************************)
(* Manager (worker_manager.py)                                             *)
(***************************************************************************)
DEDUPE_SEC == 2
RATE_LIMIT_SEC == 1
TARGET_COOLDOWN_SEC == 2
ENABLE_PROPOSE == TRUE
PROPOSE_TTL_SEC == 3
BUDGET_MAX == 1
BUDGET_WINDOW_SEC == 1
OPS_GLOBAL_FREEZE_KEY == "ops:freeze"
MANAGER_ID == "agent_manager"

RESTART_SERVICE == <<"restart_service">>
TYPE_NONE == <<"none">>
DEFAULT_SERVICE == <<"sentinel-api">>

\* err[:120], counted in tokens
ErrPrefixLen == 2
ErrPrefix(err) == SubSeq(err, 1, Min2(Len(err), ErrPrefixLen))

incident_fingerprint(inc) ==
    LET kind == Strip(OrEmpty(inc.kind))
        svc == Strip(OrEmpty(inc.service))
        sev == Strip(OrEmpty(inc.severity))
        url == Strip(OrEmpty(inc.evidence.url))
        status == Strip(OrEmpty(inc.evidence.status))
        err == Strip(OrEmpty(inc.evidence.error))
    IN Sha256(<<svc, "|", kind, "|", sev, "|", url, "|", status, "|", ErrPrefix(err)>>)

classify_severity(inc) ==
    LET kind == LowerTxt(OrEmpty(inc.kind))
    IN IF Contains(kind, "unreachable") THEN <<"critical">>
       ELSE IF Contains(kind, "http_error") THEN <<"high">>
       ELSE IF Contains(kind, "unhealthy") THEN <<"high">>
       ELSE IF Contains(kind, "exception") THEN <<"medium">>
       ELSE LowerTxt(OrDefault(inc.severity, <<"low">>))

recommend_action(inc) ==
    LET sev == classify_severity(inc)
        svc == Strip(OrDefault(inc.service, DEFAULT_SERVICE))
    IN IF sev \in {<<"critical">>, <<"high">>}
       THEN [type |-> RESTART_SERVICE, target |-> svc,
             reason |-> <<"recommended by manager (">> \o sev \o <<")">>,
             confidence |-> IF sev = <<"critical">> THEN 85 ELSE 70,
             params |-> Dict({})]
       ELSE [type |-> TYPE_NONE, target |-> <<>>,
             reason |-> <<"no action recommended">>,
             confidence |-> 40, params |-> Dict({})]

DedupeKey(fp) == <<"ops:dedupe", fp>>
RateLimitKey(fp) == <<"ops:ratelimit", fp>>
ProposedFpKey(fp) == <<"ops:proposed:fp", fp>>
_cooldown_key(action_type, target) == <<"ops:cooldown", action_type, target>>

\* Mutation of should_suppress: the dedupe key is never consulted
ShouldSuppressNoDedupe(fp, keys, t) ==
    LET keys1 == SetEx(keys, DedupeKey(fp), DEDUPE_SEC, t)
    IN IF KeyExists(keys1, RateLimitKey(fp), t)
       THEN [suppress |-> TRUE, why |-> "rate_limit", keys |-> keys1]
       ELSE [suppress |-> FALSE, why |-> "emit",
             keys |-> SetEx(keys1, RateLimitKey(fp), RATE_LIMIT_SEC, t)]

\* should_suppress(fp): the verdict and the keys afterwards
should_suppress(fp, keys, t) ==
    IF KeyExists(keys, DedupeKey(fp), t)
    THEN [suppress |-> TRUE, why |-> "dedupe", keys |-> keys]
    ELSE LET keys1 == SetEx(keys, DedupeKey(fp), DEDUPE_SEC, t)
         IN IF KeyExists(keys1, RateLimitKey(fp), t)
            THEN [suppress |-> TRUE, why |-> "rate_limit", keys |-> keys1]
            ELSE [suppress |-> FALSE, why |-> "emit",
                  keys |-> SetEx(keys1, RateLimitKey(fp), RATE_LIMIT_SEC, t)]

_global_freeze_active(frozen) == OPS_GLOBAL_FREEZE_KEY # "" /\ frozen

\* _budget_allows: old entries are removed before counting
_budget_allows(zset, t) ==
    IF BUDGET_MAX <= 0 THEN [ok |-> TRUE, zset |-> zset]
    ELSE LET cleaned == {m \in zset : ~(m.score <= t - BUDGET_WINDOW_SEC)}
         IN [ok |-> ~(Cardinality(cleaned) >= BUDGET_MAX), zset |-> cleaned]

_budget_record_event(zset, t, uuid) ==
    IF BUDGET_MAX <= 0 THEN zset
    ELSE zset \cup {[member |-> <<t, uuid>>, score |-> t]}

\* f"act_{now_ts()}_{uuid.uuid4().hex[:6]}"
ActionId(t, uuid) == <<"act", ToString(t), ToString(uuid)>>

\* The record propose_from_recommendation writes
ProposedRecord(inc, rec, fp, t, uuid) ==
    LET action == [type |-> Strip(OrEmpty(rec.type)),
                   target |-> Strip(OrEmpty(rec.target)),
                   reason |-> Strip(OrEmpty(rec.reason)),
                   params |-> OrEmptyDict(rec.params)]
    IN [action_id |-> ActionId(t, uuid),
        incident_id |-> IF inc.incident_id = NoneVal THEN <<"inc", uuid>> ELSE inc.incident_id,
        created_ts |-> t,
        expires_ts |-> t + PROPOSE_TTL_SEC,
        status |-> "proposed",
        fingerprint |-> fp,
        action |-> action,
        manager |-> MANAGER_ID,
        recommended_confidence |-> rec.confidence,
        digest |-> digest_action(action)]

\* Mutation of propose_from_recommendation: the cooldown key is set before
\* the fingerprint key is tested
ProposeCooldownFirst(inc, rec, fp, st, t) ==
    LET skip(why, st1) == [st1 EXCEPT !.gate = why]
        budget == _budget_allows(st.zset, t)
        st_b == [st EXCEPT !.zset = budget.zset]
        action_type == Strip(OrEmpty(rec.type))
        target == Strip(OrEmpty(rec.target))
        cd_key == _cooldown_key(action_type, target)
        st_c == IF TARGET_COOLDOWN_SEC > 0
                THEN [st_b EXCEPT !.keys = SetEx(@, cd_key, TARGET_COOLDOWN_SEC, t)]
                ELSE st_b
        record == ProposedRecord(inc, rec, fp, t, st.uuid)
    IN IF OrEmpty(rec.type) = TYPE_NONE THEN skip("none", st)
       ELSE IF _global_freeze_active(st.frozen) THEN skip("freeze", st)
       ELSE IF ~budget.ok THEN skip("budget", st_b)
       ELSE IF TARGET_COOLDOWN_SEC > 0 /\ KeyExists(st_b.keys, cd_key, t)
            THEN skip("cooldown", st_b)
       ELSE IF KeyExists(st_b.keys, ProposedFpKey(fp), t) THEN skip("fp", st_c)
       ELSE [gate |-> "",
             frozen |-> st.frozen,
             kv |-> (record.action_id :> jdump(record)) @@ st_c.kv,
             q |-> Append(st_c.q, record.action_id),
             keys |-> SetEx(st_c.keys, ProposedFpKey(fp), PROPOSE_TTL_SEC, t),
             zset |-> _budget_record_event(st_c.zset, t, st.uuid),
             uuid |-> st.uuid + 1]

\* propose_from_recommendation: the gate that skipped ("" when none did) and
\* the store afterwards
propose_from_recommendation(inc, rec, fp, st, t) ==
    LET skip(why, st1) == [st1 EXCEPT !.gate = why]
        budget == _budget_allows(st.zset, t)
        st_b == [st EXCEPT !.zset = budget.zset]
        action_type == Strip(OrEmpty(rec.type))
        target == Strip(OrEmpty(rec.target))
        cd_key == _cooldown_key(action_type, target)
        st_c == IF TARGET_COOLDOWN_SEC > 0
                THEN [st_b EXCEPT !.keys = SetEx(@, cd_key, TARGET_COOLDOWN_SEC, t)]
                ELSE st_b
        record == ProposedRecord(inc, rec, fp, t, st.uuid)
    IN IF OrEmpty(rec.type) = TYPE_NONE THEN skip("none", st)
       ELSE IF _global_freeze_active(st.frozen) THEN skip("freeze", st)
       ELSE IF ~budget.ok THEN skip("budget", st_b)
       ELSE IF KeyExists(st_b.keys, ProposedFpKey(fp), t) THEN skip("fp", st_b)
       ELSE IF TARGET_COOLDOWN_SEC > 0 /\ KeyExists(st_b.keys, cd_key, t)
            THEN skip("cooldown", st_b)
       ELSE [gate |-> "",
             frozen |-> st.frozen,
             kv |-> (record.action_id :> jdump(record)) @@ st_c.kv,
             q |-> Append(st_c.q, record.action_id),
             keys |-> SetEx(st_c.keys, ProposedFpKey(fp), PROPOSE_TTL_SEC, t),
             zset |-> _budget_record_event(st_c.zset, t, st.uuid),
             uuid |-> st.uuid + 1]

InitManagerIdle ==
    /\ q_triaged = <<>>
    /\ q_decisions = <<>>
    /\ q_proposed = <<>>
    /\ kv_action = <<>>
    /\ ttl_keys = {}
    /\ budget_zset = {}
    /\ ops_freeze = FALSE
    /\ uuid_next = 0
    /\ mgr_log = <<>>

\* One iteration of the manager's loop on a queued payload that is not JSON
ManagerInvalid(payload) ==
    /\ q_decisions' = Append(q_decisions,
                             jdump([ts |-> now, manager |-> MANAGER_ID, ok |-> FALSE,
                                    error |-> "invalid_json", raw |-> payload]))
    /\ mgr_log' = Append(mgr_log, [valid |-> FALSE, at |-> now])
    /\ UNCHANGED <<q_triaged, q_proposed, kv_action, ttl_keys, budget_zset, uuid_next>>

\* A JSON text whose value is a list, and the test that a parsed value is an
\* object (has .get)
JsonList == [json_type |-> "list"]
IsJsonObject(v) == "json_type" \notin DOMAIN v

\* One iteration of the manager's loop on a payload that is JSON but not an
\* object: jload succeeds, inc.get in incident_fingerprint raises
\* AttributeError outside any try, and run() ends before anything is pushed
ManagerRaises(payload) ==
    /\ mgr_log' = Append(mgr_log, [valid |-> FALSE, at |-> now])
    /\ UNCHANGED <<q_decisions, q_triaged, q_proposed, kv_action, ttl_keys, budget_zset,
                   uuid_next>>

\* One iteration of the manager's loop on an incident
ManagerIncident(inc) ==
    LET fp == incident_fingerprint(inc)
        sup == should_suppress(fp, ttl_keys, now)
        sev == classify_severity(inc)
        rec == recommend_action(inc)
        st0 == [gate |-> "off", frozen |-> ops_freeze, kv |-> kv_action, q |-> q_proposed,
                keys |-> sup.keys, zset |-> budget_zset, uuid |-> uuid_next]
        st1 == IF ~sup.suppress /\ ENABLE_PROPOSE
               THEN propose_from_recommendation(inc, rec, fp, st0, now)
               ELSE st0
        decision == [ts |-> now, manager |-> MANAGER_ID, fingerprint |-> fp,
                     suppressed |-> sup.suppress, suppress_reason |-> sup.why,
                     severity |-> sev, recommendation |-> rec,
                     incident_id |-> inc.incident_id, kind |-> inc.kind,
                     service |-> inc.service]
        triaged == [ts |-> now, manager |-> MANAGER_ID, fingerprint |-> fp,
                    suppressed |-> sup.suppress, suppress_reason |-> sup.why,
                    incident |-> inc, severity |-> sev, recommendation |-> rec]
    IN /\ q_decisions' = Append(q_decisions, jdump(decision))
       /\ q_triaged' = IF sup.suppress THEN q_triaged ELSE Append(q_triaged, jdump(triaged))
       /\ kv_action' = st1.kv
       /\ q_proposed' = st1.q
       /\ ttl_keys' = st1.keys
       /\ budget_zset' = st1.zset
       /\ uuid_next' = st1.uuid
       /\ mgr_log' = Append(mgr_log,
            [valid |-> TRUE, at |-> now, fp |-> fp, service |-> inc.service,
             rec_type |-> rec.type,
             dedupe_live |-> KeyExists(ttl_keys, DedupeKey(fp), now),
             frozen |-> ops_freeze,
             budget_used |-> Cardinality({m \in budget_zset :
                                            ~(m.score <= now - BUDGET_WINDOW_SEC)}),
             cooldown_live |-> KeyExists(ttl_keys, _cooldown_key(rec.type, rec.target), now),
             gate |-> st1.gate,
             fp_key_live |-> KeyExists(ttl_keys, ProposedFpKey(fp), now),
             fp_key_set |-> [key |-> ProposedFpKey(fp), exp |-> now + PROPOSE_TTL_SEC]
                               \in (ttl_keys' \ ttl_keys),
             cooldown_set |-> [key |-> _cooldown_key(Strip(OrEmpty(rec.type)),
                                                     Strip(OrEmpty(rec.target))),
                               exp |-> now + TARGET_COOLDOWN_SEC] \in (ttl_keys' \ ttl_keys),
             budget_events |-> Cardinality(budget_zset' \ budget_zset),
             suppressed |-> jload(q_decisions'[Len(q_decisions')]).suppressed,
             triaged |-> Len(q_triaged') - Len(q_triaged),
             pushed |-> Len(q_proposed') - Len(q_proposed),
             created |-> {jload(kv_action'[id]).action :
                            id \in DOMAIN kv_action' \ DOMAIN kv_action},
             rewritten |-> {id \in DOMAIN kv_action : kv_action'[id] # kv_action[id]}])

\* The manager takes the oldest payload of the incidents queue (BLPOP)
ManagerHandle ==
    /\ q_incidents # <<>>
    /\ q_incidents' = Tail(q_incidents)
    /\ IF ~IsJson(Head(q_incidents)) THEN ManagerInvalid(Head(q_incidents))
       ELSE IF ~IsJsonObject(jload(Head(q_incidents))) THEN ManagerRaises(Head(q_incidents))
       ELSE ManagerIncident(jload(Head(q_incidents)))
    /\ UNCHANGED <<ops_freeze, digestVars, pipeVars, polVars, queueVars, threadVars, auditVars, clockVars,
                   probeVars, gwVars>>

\* Payloads on the incidents queue: the incidents the probe emits for a failed
\* service, and from other producers a low-severity incident, an incident
\* without a service, an incident whose service is padded with white space,
\* and a payload that is not JSON
Payloads ==
    {jdump(ProbeIncident("api", PROBE_TARGETS.api, "500", "HTTPError", 1)),
     jdump(ProbeIncident("api", PROBE_TARGETS.api, "", "URLError", 1)),
     jdump(ProbeIncident("db", PROBE_TARGETS.db, "500", "HTTPError", 1)),
     jdump([incident_id |-> <<"inc", "ext1">>, ts |-> 1, service |-> Txt("api"),
            kind |-> <<"latency">>, severity |-> Txt("low"),
            evidence |-> [url |-> NoneVal, status |-> NoneVal, error |-> NoneVal]]),
     jdump([incident_id |-> NoneVal, ts |-> 1, service |-> NoneVal,
            kind |-> <<"api_health_", "http_error">>, severity |-> Txt("high"),
            evidence |-> [url |-> Txt(PROBE_TARGETS.api), status |-> Txt("500"),
                          error |-> NoneVal]]),
     jdump([incident_id |-> <<"inc", "ext3">>, ts |-> 1, service |-> <<" ", "api">>,
            kind |-> <<"api_", "unreachable">>, severity |-> Txt("high"),
            evidence |-> [url |-> Txt(PROBE_TARGETS.api), status |-> Txt("500"),
                          error |-> Txt("HTTPError")]]),
     <<"raw", "{not json">>}

\* A producer pushes a payload (RPUSH)
PushIncident(payload) ==
    /\ Len(q_incidents) + Len(mgr_log) < MaxIncidents
    /\ q_incidents' = Append(q_incidents, payload)
    /\ UNCHANGED <<polVars, queueVars, threadVars, auditVars, clockVars, probeVars, gwVars, opsVars>>

\* The operator sets or deletes the global freeze key
ToggleFreeze ==
    /\ ops_freeze' = ~ops_freeze
    /\ UNCHANGED <<q_triaged, q_decisions, q_proposed, kv_action, ttl_keys, budget_zset,
                   uuid_next, mgr_log, digestVars, pipeVars>>
    /\ UNCHANGED <<polVars, queueVars, threadVars, auditVars, clockVars, probeVars, q_incidents, gwVars>>

\* Payloads of every shape a producer can push: an incident, a text that is
\* not JSON, and a JSON text that is not an object
ShapePayloads ==
    {jdump(ProbeIncident("api", PROBE_TARGETS.api, "500", "HTTPError", 1)),
     jdump(ProbeIncident("db", PROBE_TARGETS.db, "500", "HTTPError", 1)),
     <<"raw", "{not json">>,
     jdump(JsonList)}

NextManagerShapes ==
    \/ \E payload \in ShapePayloads : PushIncident(payload)
    \/ ManagerHandle
    \/ Tick

NextManager ==
    \/ \E payload \in Payloads : PushIncident(payload)
    \/ ManagerHandle
    \/ ToggleFreeze
    \/ Tick

(***************************************************************************)
(* Inputs of digest_action                                                 *)
(***************************************************************************)
\* Action dicts: types and targets with and without surrounding white space
\* and missing, params missing, empty and non-empty, two reasons
DigestActions ==
    [type : {RESTART_SERVICE, <<"restart_service", " ">>, NoneVal},
     target : {<<"api">>, <<" ", "api">>, <<"db">>},
     params : {NoneDict, Dict({}), Dict({<<"force", "1">>})},
     reason : {<<"r1">>, <<"r2">>}]

\* The record fields around the action
DigestMeta ==
    {[manager |-> MANAGER_ID, created_ts |-> 1, fingerprint |-> Sha256(<<"f1">>),
      incident_id |-> <<"inc", 1, "api">>],
     [manager |-> "other_manager", created_ts |-> 2, fingerprint |-> Sha256(<<"f2">>),
      incident_id |-> <<"inc", 2, "db">>]}

DigestRecords ==
    {[action |-> a, manager |-> m.manager, created_ts |-> m.created_ts,
      fingerprint |-> m.fingerprint, incident_id |-> m.incident_id] :
        a \in DigestActions, m \in DigestMeta}

NoRecord ==
    [action |-> [type |-> NoneVal, target |-> NoneVal, params |-> NoneDict, reason |-> <<>>],
     manager |-> "", created_ts |-> 0, fingerprint |-> NoHash, incident_id |-> NoneVal]

\* The incidents the manager turns into records: one naming a service, one not
DigestPayloads ==
    {p \in Payloads : IsJson(p) /\ jload(p).service \in {Txt("db"), NoneVal}}

InitDigestIdle ==
    /\ dg_a = NoRecord
    /\ dg_b = NoRecord
    /\ dg_da = NoHash
    /\ dg_db = NoHash

\* digest_action is applied to the action of both records
ComputeDigests ==
    /\ dg_da = NoHash
    /\ dg_da' = digest_action(dg_a.action)
    /\ dg_db' = digest_action(dg_b.action)
    /\ UNCHANGED <<dg_a, dg_b, mgrVars, pipeVars, polVars, queueVars, threadVars, auditVars, clockVars, probeVars,
                   q_incidents, gwVars>>

NextDigest ==
    \/ ComputeDigests
    \/ ManagerHandle

(***************************************************************************)
(* Redis lists                                                             *)
(***************************************************************************)
\* No item: BRPOPLPUSH timed out, or the worker is between two iterations
NoItem == <<>>

\* LREM list 1 item: the first occurrence from the head is removed
LRem1(q, item) ==
    IF \E i \in DOMAIN q : q[i] = item
    THEN LET i == CHOOSE i \in DOMAIN q : q[i] = item /\ \A j \in 1 .. (i - 1) : q[j] # item
         IN SubSeq(q, 1, i - 1) \o SubSeq(q, i + 1, Len(q))
    ELSE q

\* The key of the canonical record of an action
ActionKey(action_id) == <<"ops:action", action_id>>

\* SET key value without EX: the key no longer expires
Persist(keys, k) == {e \in keys : e.key # k}

\* The canonical records whose keys exist at time t
ExpireActions(kv, keys, t) ==
    LET live == {id \in DOMAIN kv : \A e \in keys : e.key = ActionKey(id) => t <= e.exp}
    IN IF live = DOMAIN kv THEN kv ELSE [id \in live |-> kv[id]]

\* (x or "").strip() on a digest: a hex digest holds no white space
HexStrip(x) == IF x = NoneVal THEN NoHash ELSE x

(***************************************************************************)
(* Approver (approver_bot.py)                                              *)
(***************************************************************************)
APPROVER_ID == "human_approver"

\* The allowlists; approver and executor read the same environment variables
ALLOWED_TYPES == {RESTART_SERVICE}
ALLOWED_TARGETS == {}
REQUIRE_DIGEST_MATCH == TRUE

\* _allowed, the same function in approver_bot.py and executor_worker.py
_allowed(action_type, target) ==
    IF ALLOWED_TYPES # {} /\ action_type \notin ALLOWED_TYPES
    THEN [ok |-> FALSE, why |-> <<"type_not_allowed", action_type>>]
    ELSE IF ALLOWED_TARGETS # {} /\ target \notin ALLOWED_TARGETS
    THEN [ok |-> FALSE, why |-> <<"target_not_allowed", target>>]
    ELSE [ok |-> TRUE, why |-> <<"ok">>]

\* approver_bot._reject: the record written and the entry pushed
approver_reject(record, action_id, reason, t) ==
    [record |-> Put(Put(record, "status", "rejected"), "rejection",
                    [rejected_by |-> APPROVER_ID, rejected_ts |-> t, reason |-> reason]),
     entry |-> jdump([action_id |-> action_id, error |-> "rejected", reason |-> reason,
                      ts |-> t])]

\* _approve: the record written and the message pushed
_approve(record, action_id, computed_digest, t) ==
    LET approval == Put(Put(Put(Get(record, "approval", EmptyDict),
                                "approved_by", APPROVER_ID),
                            "approved_ts", t),
                        "approved_digest", computed_digest)
        approved == Put(Put(record, "status", "approved"), "approval", approval)
    IN [record |-> approved,
        msg |-> jdump([action_id |-> action_id, approved_msg |-> approved, ts |-> t])]

\* f"exception:{type(e).__name__}:{e}"
ExceptionReason(class) == <<"exception", class>>
IsExceptionReason(reason) == Len(reason) = 2 /\ reason[1] = "exception"

\* Mutation of ApproverVerdict: a stored digest is required but not compared
ApproverVerdictPresentOnly(action_id, kv) ==
    LET record == jload(kv[action_id])
        action == Get(record, "action", EmptyDict)
        action_type == Strip(OrEmpty(Get(action, "type", NoneVal)))
        target == Strip(OrEmpty(Get(action, "target", NoneVal)))
        allowed == _allowed(action_type, target)
        existing == HexStrip(Get(record, "digest", NoneVal))
    IN IF action_id \notin DOMAIN kv THEN <<"missing_action_record">>
       ELSE IF ~allowed.ok THEN allowed.why
       ELSE IF REQUIRE_DIGEST_MATCH /\ existing = NoHash THEN <<"missing_digest">>
       ELSE <<>>

\* The approver's verdict on a claimed id: the reason to reject, <<>> to approve
ApproverVerdict(action_id, kv) ==
    LET record == jload(kv[action_id])
        action == Get(record, "action", EmptyDict)
        action_type == Strip(OrEmpty(Get(action, "type", NoneVal)))
        target == Strip(OrEmpty(Get(action, "target", NoneVal)))
        allowed == _allowed(action_type, target)
        computed == digest_action(action)
        existing == HexStrip(Get(record, "digest", NoneVal))
    IN IF action_id \notin DOMAIN kv THEN <<"missing_action_record">>
       ELSE IF ~HasStrip(Get(action, "type", NoneVal)) \/ ~HasStrip(Get(action, "target", NoneVal))
            THEN ExceptionReason("AttributeError")
       ELSE IF ~allowed.ok THEN allowed.why
       ELSE IF REQUIRE_DIGEST_MATCH /\ existing = NoHash THEN <<"missing_digest">>
       ELSE IF REQUIRE_DIGEST_MATCH /\ existing # computed
            THEN <<"digest_mismatch", existing, computed>>
       ELSE <<>>

\* BRPOPLPUSH PROPOSED_Q INFLIGHT_Q: the tail of the proposed queue moves to the
\* head of the inflight list
ApproverClaim ==
    /\ ap_item = NoItem
    /\ q_proposed # <<>>
    /\ ap_item' = q_proposed[Len(q_proposed)]
    /\ q_proposed' = SubSeq(q_proposed, 1, Len(q_proposed) - 1)
    /\ q_proposed_inflight' = <<q_proposed[Len(q_proposed)]>> \o q_proposed_inflight
    /\ UNCHANGED <<q_triaged, q_decisions, kv_action, ttl_keys, budget_zset, ops_freeze,
                   uuid_next, mgr_log, digestVars>>
    /\ UNCHANGED <<q_approved, q_approved_inflight, q_executed, q_rejected, ex_item,
                   approved_sent, exec_log, redelivered, reapVars>>
    /\ UNCHANGED <<polVars, queueVars, threadVars, auditVars, clockVars, probeVars, q_incidents, gwVars>>

\* The rest of the approver's loop body on the claimed item.  A rejecting
\* branch removes the inflight token and the finally clause removes it again.
\* The except clause rejects with a fresh dict in place of the record, and the
\* finally clause alone removes the token.
ApproverProcess ==
    /\ ap_item # NoItem
    /\ LET action_id == Strip(ap_item)
           verdict == ApproverVerdict(action_id, kv_action)
           record == IF action_id \in DOMAIN kv_action /\ ~IsExceptionReason(verdict)
                     THEN jload(kv_action[action_id])
                     ELSE [status |-> "rejected"]
           rej == approver_reject(record, action_id, verdict, now)
           app == _approve(record, action_id, digest_action(Get(record, "action", EmptyDict)),
                           now)
       IN /\ IF verdict # <<>>
             THEN /\ kv_action' = Put(kv_action, action_id, jdump(rej.record))
                  /\ q_rejected' = Append(q_rejected, rej.entry)
                  /\ q_proposed_inflight' =
                        IF IsExceptionReason(verdict) THEN LRem1(q_proposed_inflight, ap_item)
                        ELSE LRem1(LRem1(q_proposed_inflight, ap_item), ap_item)
                  /\ UNCHANGED <<q_approved, approved_sent>>
             ELSE /\ kv_action' = Put(kv_action, action_id, jdump(app.record))
                  /\ q_approved' = Append(q_approved, app.msg)
                  /\ approved_sent' = approved_sent \cup {app.msg}
                  /\ q_proposed_inflight' = LRem1(q_proposed_inflight, ap_item)
                  /\ UNCHANGED q_rejected
          /\ ttl_keys' = Persist(ttl_keys, ActionKey(action_id))
          /\ ap_log' = Append(ap_log,
               [id |-> action_id, at |-> now,
                before |-> IF action_id \in DOMAIN kv_action THEN kv_action[action_id]
                           ELSE NoItem,
                after |-> kv_action'[action_id],
                pushed_approved |-> SubSeq(q_approved', Len(q_approved) + 1, Len(q_approved')),
                pushed_rejected |-> SubSeq(q_rejected', Len(q_rejected) + 1, Len(q_rejected'))])
    /\ ap_item' = NoItem
    /\ UNCHANGED <<q_triaged, q_decisions, q_proposed, budget_zset, ops_freeze,
                   uuid_next, mgr_log, digestVars>>
    /\ UNCHANGED <<q_approved_inflight, q_executed, ex_item, exec_log, redelivered>>
    /\ reap_kept' = {e \in reap_kept :
                        e.origin = "proposed" => e.item \in Range(q_proposed_inflight')}
    /\ UNCHANGED <<q_quarantine, requeue_count, reap_log, maint_proposed, crashes>>
    /\ UNCHANGED <<polVars, queueVars, threadVars, auditVars, clockVars, probeVars, q_incidents, gwVars>>

(***************************************************************************)
(* Executor (executor_worker.py)                                           *)
(***************************************************************************)
EXECUTOR_ID == "agent_executor"
IDEMPOTENCY_TTL_SEC == 2

\* The deployment names the manager's freeze key; unset, the executor never
\* freezes
EXECUTOR_GLOBAL_FREEZE_KEY == "ops:freeze"

\* Return codes of docker compose restart: success and failure
DispatchOutcomes == {0, 1}

_freeze_active(frozen) == EXECUTOR_GLOBAL_FREEZE_KEY # "" /\ frozen

_idempotency_key(action_id) == <<"ops:exec:done", action_id>>

\* Mutation of _mark_done_once: every delivery counts as the first
MarkDoneEveryTime(keys, action_id, t) ==
    [first |-> TRUE, keys |-> SetEx(keys, _idempotency_key(action_id), IDEMPOTENCY_TTL_SEC, t)]

\* _mark_done_once: SET key 1 NX EX ttl; first is FALSE when the key is live
_mark_done_once(keys, action_id, t) ==
    IF KeyExists(keys, _idempotency_key(action_id), t)
    THEN [first |-> FALSE, keys |-> keys]
    ELSE [first |-> TRUE,
          keys |-> SetEx(keys, _idempotency_key(action_id), IDEMPOTENCY_TTL_SEC, t)]

\* Mutation of DigestVerdict: the approved digest has to be present only
DigestVerdictPresentOnly(approved_digest, computed) ==
    IF ~REQUIRE_DIGEST_MATCH THEN <<>>
    ELSE IF approved_digest = NoHash THEN <<"missing_approved_digest">>
    ELSE <<>>

\* The digest check of the executor: the reason to reject, <<>> to go on
DigestVerdict(approved_digest, computed) ==
    IF ~REQUIRE_DIGEST_MATCH THEN <<>>
    ELSE IF approved_digest = NoHash THEN <<"missing_approved_digest">>
    ELSE IF approved_digest # computed
         THEN <<"digest_mismatch", approved_digest, computed>>
    ELSE <<>>

\* The execution entry of a rejection
RejectedExecution(reason, t) ==
    [claimed_by |-> EXECUTOR_ID, claimed_ts |-> t, executed_ts |-> t, ok |-> FALSE,
     reason |-> reason, returncode |-> 1, stdout |-> "", stderr |-> "", cmd |-> <<>>,
     compose_mode |-> "v2", hint |-> ""]

\* executor_worker._reject: the record written and the entry pushed
_reject(action_id, approved_msg, reason, t) ==
    [record |-> Put(Put(approved_msg, "status", "rejected"), "execution",
                    RejectedExecution(reason, t)),
     entry |-> jdump([action_id |-> action_id, error |-> "execution_rejected",
                      reason |-> reason, extra |-> EmptyDict, ts |-> t])]

\* The execution entry of a dispatch: docker compose restart <target> returned rc
DispatchExecution(target, rc, t) ==
    [claimed_by |-> EXECUTOR_ID, claimed_ts |-> t, executed_ts |-> t, ok |-> (rc = 0),
     returncode |-> rc, stdout |-> "", stderr |-> "",
     cmd |-> <<"docker compose restart">> \o target, compose_mode |-> "v2", hint |-> ""]

\* Mutation of _record_executed: the status of the record is left as it was
RecordExecutedKeepsStatus(action_id, approved_msg, execution, t) ==
    LET rec == Put(approved_msg, "execution", execution)
    IN [record |-> rec,
        entry |-> IF execution.ok
                  THEN jdump([action_id |-> action_id, approved_msg |-> rec,
                              execution |-> execution, ts |-> t])
                  ELSE jdump([action_id |-> action_id, error |-> "execution_failed",
                              extra |-> execution, ts |-> t])]

\* _record_executed: the record written and the entry pushed to the executed
\* queue (ok) or to the rejected queue
_record_executed(action_id, approved_msg, execution, t) ==
    LET rec == Put(Put(approved_msg, "status", IF execution.ok THEN "executed" ELSE "failed"),
                   "execution", execution)
    IN [record |-> rec,
        entry |-> IF execution.ok
                  THEN jdump([action_id |-> action_id, approved_msg |-> rec,
                              execution |-> execution, ts |-> t])
                  ELSE jdump([action_id |-> action_id, error |-> "execution_failed",
                              extra |-> execution, ts |-> t])]

\* What the executor reads from a claimed item that is JSON
ExecutorReading(item) ==
    LET msg == jload(item)
        approved_msg == Get(msg, "approved_msg", EmptyDict)
        action == Get(approved_msg, "action", EmptyDict)
    IN [action_id |-> Strip(OrEmpty(Get(msg, "action_id", NoneVal))),
        approved_msg |-> approved_msg,
        action |-> action,
        action_type |-> Strip(OrEmpty(Get(action, "type", NoneVal))),
        target |-> Strip(OrEmpty(Get(action, "target", NoneVal))),
        computed |-> digest_action(action),
        approved_digest |->
            HexStrip(Get(Get(approved_msg, "approval", EmptyDict), "approved_digest", NoneVal))]

\* The try block of run() on a claimed item: what happens ("exception",
\* "rejected", "dropped", "dispatched", "unsupported"), the idempotency keys
\* afterwards, and the record and the queue entry written, if any
ExecutorOutcome(item, keys, rc, t) ==
    LET rd == ExecutorReading(item)
        allowed == _allowed(rd.action_type, rd.target)
        verdict == DigestVerdict(rd.approved_digest, rd.computed)
        done == _mark_done_once(keys, rd.action_id, t)
        rejection(why) == _reject(rd.action_id, rd.approved_msg, why, t)
        executed == _record_executed(rd.action_id, rd.approved_msg,
                                     DispatchExecution(rd.target, rc, t), t)
        none == [record |-> EmptyDict, entry |-> NoItem]
    IN IF ~IsJson(item)
       THEN [what |-> "exception", id |-> <<"unknown">>, keys |-> keys, ok |-> FALSE,
             out |-> _reject(<<"unknown">>, [action |-> EmptyDict],
                             ExceptionReason("JSONDecodeError"), t)]
       ELSE IF ~HasStrip(Get(rd.action, "type", NoneVal))
               \/ ~HasStrip(Get(rd.action, "target", NoneVal))
       THEN [what |-> "exception", id |-> <<"unknown">>, keys |-> keys, ok |-> FALSE,
             out |-> _reject(<<"unknown">>, [action |-> EmptyDict],
                             ExceptionReason("AttributeError"), t)]
       ELSE IF ~allowed.ok
       THEN [what |-> "rejected", id |-> rd.action_id, keys |-> keys, ok |-> FALSE,
             out |-> rejection(allowed.why)]
       ELSE IF verdict # <<>>
       THEN [what |-> "rejected", id |-> rd.action_id, keys |-> keys, ok |-> FALSE,
             out |-> rejection(verdict)]
       ELSE IF ~done.first
       THEN [what |-> "dropped", id |-> rd.action_id, keys |-> keys, ok |-> FALSE,
             out |-> none]
       ELSE IF rd.action_type = RESTART_SERVICE
       THEN [what |-> "dispatched", id |-> rd.action_id, keys |-> done.keys, ok |-> (rc = 0),
             out |-> executed]
       ELSE [what |-> "unsupported", id |-> rd.action_id, keys |-> done.keys, ok |-> FALSE,
             out |-> rejection(<<"unsupported_action_type", rd.action_type>>)]

InitPipelineIdle ==
    /\ q_proposed_inflight = <<>>
    /\ q_approved = <<>>
    /\ q_approved_inflight = <<>>
    /\ q_executed = <<>>
    /\ q_rejected = <<>>
    /\ ap_item = NoItem
    /\ ex_item = NoItem
    /\ approved_sent = {}
    /\ exec_log = <<>>
    /\ redelivered = 0
    /\ q_quarantine = <<>>
    /\ requeue_count = EmptyDict
    /\ ap_log = <<>>
    /\ reap_log = <<>>
    /\ reap_kept = {}
    /\ maint_proposed = 0
    /\ crashes = 0

\* BRPOPLPUSH APPROVED_Q INFLIGHT_Q, not taken while the freeze is active
ExecutorClaim ==
    /\ ~_freeze_active(ops_freeze)
    /\ ex_item = NoItem
    /\ q_approved # <<>>
    /\ ex_item' = q_approved[Len(q_approved)]
    /\ q_approved' = SubSeq(q_approved, 1, Len(q_approved) - 1)
    /\ q_approved_inflight' = <<q_approved[Len(q_approved)]>> \o q_approved_inflight
    /\ UNCHANGED <<mgrVars, digestVars>>
    /\ UNCHANGED <<q_proposed_inflight, q_executed, q_rejected, ap_item, approved_sent,
                   exec_log, redelivered, reapVars>>
    /\ UNCHANGED <<polVars, queueVars, threadVars, auditVars, clockVars, probeVars, q_incidents, gwVars>>

\* The rest of the executor's loop body on the claimed item; rc is what docker
\* compose returns if it is run
ExecutorProcess(rc) ==
    /\ ex_item # NoItem
    /\ LET o == ExecutorOutcome(ex_item, ttl_keys, rc, now)
           writes == o.what # "dropped"
       IN /\ ttl_keys' = IF writes THEN Persist(o.keys, ActionKey(o.id)) ELSE o.keys
          /\ kv_action' = IF writes THEN Put(kv_action, o.id, jdump(o.out.record))
                          ELSE kv_action
          /\ q_executed' = IF o.what = "dispatched" /\ o.ok
                           THEN Append(q_executed, o.out.entry) ELSE q_executed
          /\ q_rejected' = IF writes /\ ~(o.what = "dispatched" /\ o.ok)
                           THEN Append(q_rejected, o.out.entry) ELSE q_rejected
          /\ exec_log' = Append(exec_log,
               [item |-> ex_item, at |-> now, what |-> o.what, id |-> o.id,
                done_live |-> KeyExists(ttl_keys, _idempotency_key(o.id), now),
                dispatched |-> IF o.what = "dispatched"
                               THEN {[type |-> RESTART_SERVICE,
                                      target |-> ExecutorReading(ex_item).target, rc |-> rc]}
                               ELSE {},
                kv_changed |-> kv_action' # kv_action,
                status |-> IF o.id \in DOMAIN kv_action'
                           THEN Get(jload(kv_action'[o.id]), "status", "") ELSE "",
                pushed_executed |-> Len(q_executed') - Len(q_executed),
                pushed_rejected |-> Len(q_rejected') - Len(q_rejected)])
    /\ q_approved_inflight' = LRem1(q_approved_inflight, ex_item)
    /\ ex_item' = NoItem
    /\ UNCHANGED <<q_triaged, q_decisions, q_proposed, budget_zset, ops_freeze, uuid_next,
                   mgr_log, digestVars>>
    /\ UNCHANGED <<q_proposed_inflight, q_approved, ap_item, approved_sent, redelivered,
                   reapVars>>
    /\ UNCHANGED <<polVars, queueVars, threadVars, auditVars, clockVars, probeVars, q_incidents, gwVars>>

(***************************************************************************)
(* Deliveries to the executor                                              *)
(***************************************************************************)
MaxRedeliver == 1

\* A message the approver has pushed is pushed to the approved queue once more,
\* after the executor has taken what was queued
Redeliver(msg) ==
    /\ redelivered < MaxRedeliver
    /\ msg \in approved_sent
    /\ q_approved = <<>>
    /\ ex_item = NoItem
    /\ q_approved' = Append(q_approved, msg)
    /\ redelivered' = redelivered + 1
    /\ UNCHANGED <<mgrVars, digestVars>>
    /\ UNCHANGED <<q_proposed_inflight, q_approved_inflight, q_executed, q_rejected, ap_item,
                   ex_item, approved_sent, exec_log, reapVars>>
    /\ UNCHANGED <<polVars, queueVars, threadVars, auditVars, clockVars, probeVars, q_incidents, gwVars>>

\* The ways a queued message is changed after approval
TamperKinds ==
    {"reason", "target", "target_space", "type", "params", "params_none", "no_digest",
     "target_and_digest"}

OtherTarget(target) == IF target = <<"db">> THEN <<"api">> ELSE <<"db">>

\* The action of a message after a change of the given kind
TamperedAction(action, kind) ==
    IF kind = "reason" THEN [action EXCEPT !.reason = <<"changed">>]
    ELSE IF kind \in {"target", "target_and_digest"}
         THEN [action EXCEPT !.target = OtherTarget(action.target)]
    ELSE IF kind = "target_space" THEN [action EXCEPT !.target = <<" ">> \o action.target]
    ELSE IF kind = "type" THEN [action EXCEPT !.type = <<"stop_service">>]
    ELSE IF kind = "type_number" THEN [action EXCEPT !.type = NumberVal]
    ELSE IF kind = "params" THEN [action EXCEPT !.params = Dict({<<"force", "1">>})]
    ELSE IF kind = "params_none" THEN [action EXCEPT !.params = NoneDict]
    ELSE action

\* The message after a change of the given kind
Tampered(item, kind) ==
    LET msg == jload(item)
        action == TamperedAction(msg.approved_msg.action, kind)
        approval == msg.approved_msg.approval
        approval1 == IF kind = "no_digest" THEN Put(approval, "approved_digest", NoneVal)
                     ELSE IF kind = "target_and_digest"
                          THEN Put(approval, "approved_digest", digest_action(action))
                     ELSE approval
    IN jdump(Put(msg, "approved_msg",
                 Put(Put(msg.approved_msg, "action", action), "approval", approval1)))

\* Someone changes a message waiting on the approved queue, once per message
TamperApproved(i, kind) ==
    /\ i \in DOMAIN q_approved
    /\ q_approved[i] \in approved_sent
    /\ q_approved' = [q_approved EXCEPT ![i] = Tampered(q_approved[i], kind)]
    /\ UNCHANGED <<mgrVars, digestVars>>
    /\ UNCHANGED <<q_proposed_inflight, q_approved_inflight, q_executed, q_rejected, ap_item,
                   ex_item, approved_sent, exec_log, redelivered, reapVars>>
    /\ UNCHANGED <<polVars, queueVars, threadVars, auditVars, clockVars, probeVars, q_incidents, gwVars>>

\* The incidents at the head of the pipeline: one from the probe, one that
\* names no service
PipelinePayloads ==
    {jdump(ProbeIncident("api", PROBE_TARGETS.api, "500", "HTTPError", 1))}
        \cup {p \in Payloads : IsJson(p) /\ jload(p).service = NoneVal}

\* Time passes once the approver has handled what the manager proposed
TickApproved ==
    /\ q_incidents = <<>>
    /\ q_proposed = <<>>
    /\ ap_item = NoItem
    /\ Tick

NextExecutor ==
    \/ ManagerHandle
    \/ ApproverClaim
    \/ ApproverProcess
    \/ ExecutorClaim
    \/ \E rc \in DispatchOutcomes : ExecutorProcess(rc)
    \/ \E msg \in approved_sent : Redeliver(msg)
    \/ \E i \in 1 .. MaxIncidents, kind \in TamperKinds : TamperApproved(i, kind)
    \/ TickApproved
(***************************************************************************)
(* Maintenance worker (maintenance_worker.py)                              *)
(***************************************************************************)
MAINT_PROPOSE_TTL_SEC == 2
MaxMaint == 1

\* What the health request of the maintenance worker can end with
MaintCauses == {"unreachable"}

\* f"act_{now_ts()}_{int(time.time_ns()%1_000_000)}"
MaintActionId(t, n) == <<"act", ToString(t), "ns", ToString(n)>>

\* The incident push_incident builds
MaintIncident(cause, t, n) ==
    [incident_id |-> <<"inc", ToString(t), "ns", ToString(n)>>, ts |-> t,
     service |-> DEFAULT_SERVICE,
     kind |-> IF cause = "unreachable" THEN <<"api_", "unreachable">>
              ELSE <<"api_health_", "http_error">>,
     severity |-> Txt("high"),
     evidence |-> [url |-> Txt("http://sentinel-api:8001/health"),
                   status |-> IF cause = "unreachable" THEN NoneVal ELSE Txt("500"),
                   error |-> IF cause = "unreachable" THEN Txt("URLError") ELSE NoneVal]]

\* The record propose_restart_action writes: it carries no digest; the Sentinel
\* decision is asked of the API whose health request has just failed
MaintRecord(incident_id, cause, t, n) ==
    [action_id |-> MaintActionId(t, n),
     incident_id |-> incident_id,
     created_ts |-> t,
     status |-> "proposed",
     expires_ts |-> t + MAINT_PROPOSE_TTL_SEC,
     action |-> [type |-> RESTART_SERVICE, target |-> DEFAULT_SERVICE, params |-> Dict({}),
                 reason |-> IF cause = "unreachable" THEN <<"api unreachable">>
                            ELSE <<"/health HTTP 500">>],
     sentinel_decision_error |-> <<"URLError">>]

\* One iteration of the maintenance loop whose health request fails:
\* push_incident, then propose_restart_action (SET with EX, LPUSH)
MaintenancePropose(cause) ==
    /\ maint_proposed < MaxMaint
    /\ LET inc == MaintIncident(cause, now, maint_proposed)
           rec == MaintRecord(inc.incident_id, cause, now, maint_proposed)
       IN /\ q_incidents' = Append(q_incidents, jdump(inc))
          /\ kv_action' = Put(kv_action, rec.action_id, jdump(rec))
          /\ ttl_keys' = SetEx(ttl_keys, ActionKey(rec.action_id), MAINT_PROPOSE_TTL_SEC, now)
          /\ q_proposed' = <<rec.action_id>> \o q_proposed
    /\ maint_proposed' = maint_proposed + 1
    /\ UNCHANGED <<q_triaged, q_decisions, budget_zset, ops_freeze, uuid_next, mgr_log,
                   digestVars>>
    /\ UNCHANGED <<q_proposed_inflight, q_approved, q_approved_inflight, q_executed, q_rejected,
                   ap_item, ex_item, approved_sent, exec_log, redelivered>>
    /\ UNCHANGED <<q_quarantine, requeue_count, ap_log, reap_log, reap_kept, crashes>>
    /\ UNCHANGED <<polVars, queueVars, threadVars, auditVars, clockVars, probeVars, gwVars>>

\* Time passes and Redis deletes the canonical records whose TTL has run out
TickExpire ==
    /\ now < MaxTime
    /\ now' = now + 1
    /\ kv_action' = ExpireActions(kv_action, ttl_keys, now + 1)
    /\ reap_kept' = {}
    /\ UNCHANGED <<q_triaged, q_decisions, q_proposed, ttl_keys, budget_zset, ops_freeze,
                   uuid_next, mgr_log, digestVars>>
    /\ UNCHANGED <<q_proposed_inflight, q_approved, q_approved_inflight, q_executed, q_rejected,
                   ap_item, ex_item, approved_sent, exec_log, redelivered>>
    /\ UNCHANGED <<q_quarantine, requeue_count, ap_log, reap_log, maint_proposed, crashes>>
    /\ UNCHANGED <<polVars, queueVars, threadVars, auditVars, probeVars, q_incidents, gwVars>>

\* The ways a canonical record is changed between proposal and approval
RecordTamperKinds == {"target", "type", "digest", "drop_digest"}

TamperedRecord(record, kind) ==
    IF kind = "target" THEN Put(record, "action", TamperedAction(record.action, "target"))
    ELSE IF kind \in {"type", "type_number"}
         THEN Put(record, "action", TamperedAction(record.action, kind))
    ELSE IF kind = "digest" THEN Put(record, "digest", Sha256(<<"other">>))
    ELSE Put(record, "digest", NoneVal)

\* Someone changes the canonical record of a proposal that would be approved
TamperRecord(action_id, kind) ==
    /\ action_id \in DOMAIN kv_action
    /\ ApproverVerdict(action_id, kv_action) = <<>>
    /\ Get(jload(kv_action[action_id]), "status", "") = "proposed"
    /\ kv_action' = Put(kv_action, action_id,
                        jdump(TamperedRecord(jload(kv_action[action_id]), kind)))
    /\ UNCHANGED <<q_triaged, q_decisions, q_proposed, ttl_keys, budget_zset, ops_freeze,
                   uuid_next, mgr_log, digestVars, pipeVars>>
    /\ UNCHANGED <<polVars, queueVars, threadVars, auditVars, clockVars, probeVars, q_incidents, gwVars>>

\* The maintenance loop finds the service down once the manager has handled
\* the incidents before and the approver has taken what was proposed
MaintenanceAfterManager(cause) ==
    /\ q_incidents = <<>>
    /\ q_proposed = <<>>
    /\ MaintenancePropose(cause)

\* The two incidents at the head of the guarded pipeline
GuardIncidents ==
    <<jdump(ProbeIncident("api", PROBE_TARGETS.api, "500", "HTTPError", 1)),
      jdump(ProbeIncident("db", PROBE_TARGETS.db, "500", "HTTPError", 1))>>

\* The pipeline with records and messages whose action type was replaced by a
\* number, on which .strip() raises inside the workers' try blocks
NextGuard ==
    \/ ManagerHandle
    \/ \E action_id \in DOMAIN kv_action : TamperRecord(action_id, "type_number")
    \/ ApproverClaim
    \/ ApproverProcess
    \/ \E i \in 1 .. MaxIncidents : TamperApproved(i, "type_number")
    \/ ExecutorClaim
    \/ \E rc \in DispatchOutcomes : ExecutorProcess(rc)
    \/ TickExpire

\* The manager, the approver and the executor on the incidents of the probe
NextFifo ==
    \/ ManagerHandle
    \/ ApproverClaim
    \/ ApproverProcess
    \/ ExecutorClaim
    \/ \E rc \in DispatchOutcomes : ExecutorProcess(rc)
    \/ TickExpire

NextApprover ==
    \/ ManagerHandle
    \/ \E cause \in MaintCauses : MaintenanceAfterManager(cause)
    \/ \E action_id \in DOMAIN kv_action, kind \in RecordTamperKinds :
          TamperRecord(action_id, kind)
    \/ ApproverClaim
    \/ ApproverProcess
    \/ TickExpire
(***************************************************************************)
(* Reaper (worker_reaper.py)                                               *)
(***************************************************************************)
STALE_SEC == 2
MAX_REQUEUES == 1

TerminalStatuses == {"executed", "failed", "rejected", "quarantined"}

\* LREM list 0 item: every occurrence is removed
LRemAll(q, item) == SelectSeq(q, LAMBDA x : x # item)

\* get_action found a record under ops:action:<item>; an item that is a JSON
\* message names no key that exists
ActionFound(kv, item) == ~IsJson(item) /\ item \in DOMAIN kv

\* Mutation of ClaimedTs: approval.approved_ts is not read
ClaimedTsExecutionOnly(rec) ==
    IF "execution" \in DOMAIN rec THEN rec.execution.claimed_ts ELSE -1

\* The timestamp scan_inflight takes from a record: execution.claimed_ts, else
\* approval.approved_ts, else -1 for None
ClaimedTs(rec) ==
    IF "execution" \in DOMAIN rec THEN rec.execution.claimed_ts
    ELSE IF "approval" \in DOMAIN rec THEN Get(rec.approval, "approved_ts", -1)
    ELSE -1

\* r.expire(key, 172800): the life of a requeue counter, scaled like the
\* other lifetimes
REQUEUE_COUNT_TTL_SEC == 3

\* The value of a counter key at time t, 0 when it is absent or has expired
CounterValue(counts, key, t) ==
    IF key \in DOMAIN counts /\ counts[key].exp > t THEN counts[key].n ELSE 0

\* requeue_or_quarantine with a counter that never reaches the limit
RequeueAlways(action_id, rec, origin, counts, t) ==
    LET reaper == Put(Get(rec, "reaper", EmptyDict), "last_seen_inflight_ts", t)
        key == <<"ops:requeue_count", origin, action_id>>
    IN [counts |-> Put(counts, key, [n |-> 1, exp |-> t + REQUEUE_COUNT_TTL_SEC]),
        count |-> 1,
        quarantine |-> FALSE,
        record |-> Put(rec, "reaper", reaper)]

\* requeue_or_quarantine: the record saved, the counters afterwards (INCR,
\* then EXPIRE), the value INCR returned, and whether the id goes to the
\* quarantine queue
requeue_or_quarantine(action_id, rec, origin, counts, t) ==
    LET reaper == Put(Get(rec, "reaper", EmptyDict), "last_seen_inflight_ts", t)
        key == <<"ops:requeue_count", origin, action_id>>
        count == CounterValue(counts, key, t) + 1
        quarantined ==
            Put(Put(rec, "status", "quarantined"), "reaper",
                Put(Put(Put(reaper, "quarantined_reason",
                            <<"max_requeues_exceeded", ToString(MAX_REQUEUES)>>),
                        "quarantined_from", origin),
                    "quarantined_at", t))
    IN [counts |-> Put(counts, key, [n |-> count, exp |-> t + REQUEUE_COUNT_TTL_SEC]),
        count |-> count,
        quarantine |-> count > MAX_REQUEUES,
        record |-> IF count > MAX_REQUEUES THEN quarantined ELSE Put(rec, "reaper", reaper)]

\* The status of the action an inflight item stands for: the item is an id, or
\* a message that carries one
ItemStatus(kv, item) ==
    LET action_id == IF IsJson(item) THEN ExecutorReading(item).action_id ELSE Strip(item)
    IN IF action_id \in DOMAIN kv THEN Get(jload(kv[action_id]), "status", "") ELSE ""

\* The body of the loop of scan_inflight for one item of the snapshot; st holds
\* the record store, its TTL keys, the inflight list, the main queue, the
\* quarantine queue, the counters, the log and the items passed over
ScanItem(st, item, origin, t, held) ==
    LET action_id == IF IsJson(item) THEN item ELSE Strip(item)
        rec == jload(st.kv[action_id])
        claimed_ts == ClaimedTs(rec)
        is_stale == claimed_ts < 0 \/ t - claimed_ts >= STALE_SEC
        rq == requeue_or_quarantine(action_id, rec, origin, st.counts, t)
        entry(what) == [item |-> item, origin |-> origin, at |-> t, what |-> what,
                        held |-> held = item, status |-> ItemStatus(st.kv, item),
                        count |-> IF what \in {"requeued", "quarantined"} THEN rq.count ELSE 0,
                        counted |-> CounterValue(st.counts,
                                      <<"ops:requeue_count", origin, action_id>>, t),
                        status_after |-> IF what \in {"requeued", "quarantined"}
                                         THEN Get(rq.record, "status", "")
                                         ELSE ItemStatus(st.kv, item)]
    IN IF ~ActionFound(st.kv, action_id)
       THEN [st EXCEPT !.inflight = LRemAll(@, action_id),
                       !.log = Append(@, entry("dropped"))]
       ELSE IF Get(rec, "status", "") \in TerminalStatuses
       THEN [st EXCEPT !.inflight = LRemAll(@, action_id),
                       !.kept = @ \ {[item |-> item, origin |-> origin]},
                       !.log = Append(@, entry("terminal"))]
       ELSE IF ~is_stale
       THEN [st EXCEPT !.kept = @ \cup {[item |-> item, origin |-> origin]}]
       ELSE [st EXCEPT !.inflight = LRemAll(@, action_id),
                       !.kept = @ \ {[item |-> item, origin |-> origin]},
                       !.kv = Put(@, action_id, jdump(rq.record)),
                       !.keys = Persist(@, ActionKey(action_id)),
                       !.counts = rq.counts,
                       !.main = IF rq.quarantine THEN @ ELSE Append(@, action_id),
                       !.quarantine = IF rq.quarantine THEN Append(@, action_id) ELSE @,
                       !.log = Append(@, entry(IF rq.quarantine THEN "quarantined"
                                               ELSE "requeued"))]

\* scan_inflight over the snapshot LRANGE returned
RECURSIVE ScanItems(_, _, _, _, _)
ScanItems(st, ids, origin, t, held) ==
    IF ids = <<>> THEN st
    ELSE ScanItems(ScanItem(st, Head(ids), origin, t, held), Tail(ids), origin, t, held)

\* scan_inflight(inflight_q, origin) on a list that is not empty
scan_inflight(origin) ==
    LET inflight == IF origin = "proposed" THEN q_proposed_inflight ELSE q_approved_inflight
        main == IF origin = "proposed" THEN q_proposed ELSE q_approved
        held == IF origin = "proposed" THEN ap_item ELSE ex_item
        st == ScanItems([kv |-> kv_action, keys |-> ttl_keys, inflight |-> inflight,
                         main |-> main, quarantine |-> q_quarantine,
                         counts |-> requeue_count, log |-> reap_log,
                         kept |-> reap_kept],
                        inflight, origin, now, held)
    IN /\ inflight # <<>>
       /\ kv_action' = st.kv
       /\ ttl_keys' = st.keys
       /\ q_quarantine' = st.quarantine
       /\ requeue_count' = st.counts
       /\ reap_log' = st.log
       /\ reap_kept' = st.kept
       /\ IF origin = "proposed"
          THEN /\ q_proposed_inflight' = st.inflight
               /\ q_proposed' = st.main
               /\ UNCHANGED <<q_approved_inflight, q_approved>>
          ELSE /\ q_approved_inflight' = st.inflight
               /\ q_approved' = st.main
               /\ UNCHANGED <<q_proposed_inflight, q_proposed>>
       /\ UNCHANGED <<q_triaged, q_decisions, budget_zset, ops_freeze, uuid_next, mgr_log,
                      digestVars>>
       /\ UNCHANGED <<q_executed, q_rejected, ap_item, ex_item, approved_sent, exec_log,
                      redelivered, ap_log, maint_proposed, crashes>>
       /\ UNCHANGED <<polVars, queueVars, threadVars, auditVars, clockVars, probeVars, q_incidents, gwVars>>

MaxCrashes == 1

\* A worker dies between its claim and the end of the iteration and is started
\* again: the claimed item stays on the inflight list
WorkerCrash(worker) ==
    /\ crashes < MaxCrashes
    /\ crashes' = crashes + 1
    /\ IF worker = "approver"
       THEN ap_item # NoItem /\ ap_item' = NoItem /\ UNCHANGED ex_item
       ELSE ex_item # NoItem /\ ex_item' = NoItem /\ UNCHANGED ap_item
    /\ UNCHANGED <<mgrVars, digestVars>>
    /\ UNCHANGED <<q_proposed_inflight, q_approved, q_approved_inflight, q_executed, q_rejected,
                   approved_sent, exec_log, redelivered>>
    /\ UNCHANGED <<q_quarantine, requeue_count, ap_log, reap_log, reap_kept, maint_proposed>>
    /\ UNCHANGED <<polVars, queueVars, threadVars, auditVars, clockVars, probeVars, q_incidents, gwVars>>

NextPipeline ==
    \/ ManagerHandle
    \/ ApproverClaim
    \/ ApproverProcess
    \/ ExecutorClaim
    \/ \E rc \in DispatchOutcomes : ExecutorProcess(rc)
    \/ \E origin \in {"proposed", "approved"} : scan_inflight(origin)
    \/ \E worker \in {"approver", "executor"} : WorkerCrash(worker)
    \/ ToggleFreeze
    \/ TickExpire
(***************************************************************************)
(* The pipeline without failures                                           *)
(***************************************************************************)
\* The operator deletes the freeze key
ClearFreeze == ops_freeze /\ ToggleFreeze

\* The approver ends the iteration it is in: the step of ApproverProcess
ApproverFinishes == ap_item # NoItem /\ ap_item' = NoItem

\* The executor ends the iteration it is in: the step of ExecutorProcess
ExecutorFinishes == ex_item # NoItem /\ ex_item' = NoItem

NextProgress ==
    \/ ManagerHandle
    \/ ApproverClaim
    \/ ApproverProcess
    \/ ExecutorClaim
    \/ \E rc \in DispatchOutcomes : ExecutorProcess(rc)
    \/ \E origin \in {"proposed", "approved"} : scan_inflight(origin)
    \/ ToggleFreeze
    \/ TickExpire

\* The approver and the executor loops keep iterating: each claims what is
\* queued and ends the iteration it has begun (both handlers are total once an
\* item is claimed); the executor, which tests the freeze key at the top of
\* every iteration, claims a queued message when the key is absent again and
\* again; a set freeze key is deleted in the end. The reaper may scan at any
\* time and is not required to
FairProgress ==
    /\ WF_vars(ApproverClaim)
    /\ WF_ap_item(ApproverFinishes)
    /\ SF_vars(ExecutorClaim)
    /\ WF_ex_item(ExecutorFinishes)
    /\ WF_vars(ClearFreeze)
(***************************************************************************)
(* Signed queue envelope (queue_redis.py)                                  *)
(***************************************************************************)
\* Parsed JSON values carry their type: isinstance(x, dict) is IsJDict(x)
JDict(fields) == <<"dict", fields>>
JStr(s) == <<"str", s>>
JNum(n) == <<"num", n>>
JList == <<"list">>
JNull == <<"null">>
IsJDict(x) == x[1] = "dict"

\* An exception leaves the function
Raised(class) == <<"raises", class>>

\* A text with a character outside ASCII
NonAsciiText == <<"\\u00e9">>
IsAscii(s) == s # NonAsciiText

\* str(x or "")
StrOrEmpty(x) ==
    IF x \in {JNull, JStr(<<>>), JNum(0), JList, JDict(EmptyDict)} THEN <<>>
    ELSE IF x[1] = "str" THEN x[2]
    ELSE <<"str", x>>

\* json.dumps(obj, sort_keys=True, separators=(",", ":"), ensure_ascii=False)
_jdump(obj) == jdump(obj)

_hmac_sig(secret, data) == Hmac(secret, data)

\* hmac.compare_digest(a, b) on two str: TypeError unless both are ASCII
compare_digest(a, b) ==
    IF ~IsAscii(a) \/ ~IsAscii(b) THEN Raised("TypeError")
    ELSE IF a = b THEN <<"equal">> ELSE <<"differ">>

\* _wrap(payload) at time ts
_wrap(secret, payload, ts) ==
    IF secret = "" THEN payload
    ELSE LET body == [v |-> JNum(1), ts |-> JStr(<<"iso", ToString(ts)>>), payload |-> payload]
         IN JDict(Put(body, "sig", JStr(_hmac_sig(secret, _jdump(JDict(body))))))

\* The dict the signature of an envelope is computed over
UnsignedOf(obj) ==
    JDict([v |-> Get(obj[2], "v", JNum(1)), ts |-> Get(obj[2], "ts", JNull),
           payload |-> Get(obj[2], "payload", JNull)])

\* _unwrap(obj): the payload, JNull for None, or the exception raised
_unwrap(secret, obj) ==
    IF secret = "" THEN obj
    ELSE IF ~IsJDict(obj) THEN JNull
    ELSE IF {"payload", "sig", "ts"} \ DOMAIN obj[2] # {} THEN JNull
    ELSE LET sig == StrOrEmpty(obj[2].sig)
             expected == _hmac_sig(secret, _jdump(UnsignedOf(obj)))
             cmp == compare_digest(expected, sig)
         IN IF cmp = Raised("TypeError") THEN cmp
            ELSE IF cmp # <<"equal">> THEN JNull
            ELSE IF IsJDict(obj[2].payload) THEN obj[2].payload ELSE JNull

\* The payloads producers push
QueuePayloads == {JDict([id |-> JStr(<<"j1">>)]), JDict([id |-> JStr(<<"j2">>)])}

MaxQueuePush == 2

InitQueueIdle ==
    /\ sq_secret = "qs"
    /\ sq_list = <<>>
    /\ sq_log = <<>>

\* qpush(queue_name, payload)
qpush(payload) ==
    /\ Cardinality({k \in DOMAIN sq_log : sq_log[k].op = "push"}) < MaxQueuePush
    /\ LET raw == _jdump(_wrap(sq_secret, payload, now))
       IN /\ sq_list' = Append(sq_list, raw)
          /\ sq_log' = Append(sq_log, [op |-> "push", payload |-> payload, raw |-> raw,
                                       result |-> JNull])
    /\ UNCHANGED sq_secret
    /\ UNCHANGED <<polVars, threadVars, auditVars, clockVars, probeVars, q_incidents, gwVars, opsVars>>

\* What qpop returns for the text it popped
QPopResult(secret, raw) ==
    IF ~IsJson(raw) THEN JNull ELSE _unwrap(secret, jload(raw))

\* qpop(queue_name) on a list that is not empty (LPOP / BLPOP)
qpop ==
    /\ sq_list # <<>>
    /\ sq_list' = Tail(sq_list)
    /\ sq_log' = Append(sq_log, [op |-> "pop", payload |-> JNull, raw |-> Head(sq_list),
                                 result |-> QPopResult(sq_secret, Head(sq_list))])
    /\ UNCHANGED sq_secret
    /\ UNCHANGED <<polVars, threadVars, auditVars, clockVars, probeVars, q_incidents, gwVars, opsVars>>

\* The ways someone with access to Redis, and without the secret, changes a
\* queued envelope
EnvelopeTamperKinds ==
    {"drop_sig", "null_sig", "empty_sig", "forged_sig", "non_ascii_sig", "payload", "ts",
     "v", "drop_v", "bare_payload", "list", "not_json"}

TamperedEnvelope(raw, kind) ==
    LET obj == jload(raw)
        f == obj[2]
        other == JDict([id |-> JStr(<<"evil">>)])
    IN CASE kind = "drop_sig"      -> _jdump(JDict([k \in DOMAIN f \ {"sig"} |-> f[k]]))
         [] kind = "null_sig"      -> _jdump(JDict(Put(f, "sig", JNull)))
         [] kind = "empty_sig"     -> _jdump(JDict(Put(f, "sig", JStr(<<>>))))
         [] kind = "forged_sig"    ->
                _jdump(JDict(Put(Put(f, "payload", other), "sig",
                      JStr(_hmac_sig("guess", _jdump(UnsignedOf(JDict(Put(f, "payload", other)))))))))
         [] kind = "non_ascii_sig" -> _jdump(JDict(Put(f, "sig", JStr(NonAsciiText))))
         [] kind = "payload"       -> _jdump(JDict(Put(f, "payload", other)))
         [] kind = "ts"            -> _jdump(JDict(Put(f, "ts", JStr(<<"iso", "0">>))))
         [] kind = "v"             -> _jdump(JDict(Put(f, "v", JNum(2))))
         [] kind = "drop_v"        -> _jdump(JDict([k \in DOMAIN f \ {"v"} |-> f[k]]))
         [] kind = "bare_payload"  -> _jdump(other)
         [] kind = "list"          -> _jdump(JList)
         [] OTHER                  -> <<"not json">>

\* A queued envelope that a producer pushed is changed in Redis; the model
\* changes the one at the head, which the next qpop reads
TamperEnvelope(i, kind) ==
    /\ sq_secret # ""
    /\ i \in DOMAIN sq_list
    /\ \E k \in DOMAIN sq_log : sq_log[k].op = "push" /\ sq_log[k].raw = sq_list[i]
    /\ sq_list' = [sq_list EXCEPT ![i] = TamperedEnvelope(sq_list[i], kind)]
    /\ UNCHANGED <<sq_secret, sq_log>>
    /\ UNCHANGED <<polVars, threadVars, auditVars, clockVars, probeVars, q_incidents, gwVars, opsVars>>

NextQueue ==
    \/ \E payload \in QueuePayloads : qpush(payload)
    \/ qpop
    \/ \E kind \in EnvelopeTamperKinds : TamperEnvelope(1, kind)
(***************************************************************************)
(* The pipeline around the reaper                                          *)
(***************************************************************************)
\* The workers, the reaper, crashes and the clock, with the freeze key unset
NextReaper ==
    \/ ManagerHandle
    \/ ApproverClaim
    \/ ApproverProcess
    \/ ExecutorClaim
    \/ \E rc \in DispatchOutcomes : ExecutorProcess(rc)
    \/ \E origin \in {"proposed", "approved"} : scan_inflight(origin)
    \/ \E worker \in {"approver", "executor"} : WorkerCrash(worker)
    \/ TickExpire

(***************************************************************************)
(* Concurrent /analyze handlers (sentinel_api.py)                          *)
(*                                                                         *)
(* analyze is a plain def, so the server runs each request in a thread of  *)
(* its pool; neither write_audit_log nor the ledger update takes a lock.   *)
(***************************************************************************)
\* The threads of the pool that serve requests at the same time
HandlerThreads == {"t1", "t2"}

AwIdle == [pc |-> "idle", record |-> <<>>]
LgIdle == [pc |-> "idle", db |-> <<>>, agent_id |-> ""]

InitThreadsIdle ==
    /\ aw_threads = [t \in HandlerThreads |-> AwIdle]
    /\ lg_threads = [t \in HandlerThreads |-> LgIdle]
    /\ lg_done = [a \in Agents |-> 0]

\* The audit lines written or about to be written
AwStarted == Len(audit_file) + Cardinality({t \in HandlerThreads : aw_threads[t].pc = "append"})

\* write_audit_log up to the record: audit.state is read and the record built
AwRead(t, ts, result) ==
    /\ aw_threads[t].pc = "idle"
    /\ AwStarted < MaxAudit
    /\ aw_threads' = [aw_threads EXCEPT ![t] =
          [pc |-> "append",
           record |-> AuditRecord(audit_state, audit_secret, ts, "10.0.0.1", result)]]
    /\ UNCHANGED <<lg_threads, lg_done>>
    /\ UNCHANGED <<polVars, auditVars, clockVars, probeVars, q_incidents, gwVars, opsVars,
                   queueVars>>

\* write_audit_log: the line is appended to audit.jsonl
AwAppend(t) ==
    /\ aw_threads[t].pc = "append"
    /\ audit_exists' = TRUE
    /\ audit_file' = Append(audit_file, aw_threads[t].record)
    /\ audit_appends' = audit_appends + 1
    /\ aw_threads' = [aw_threads EXCEPT ![t].pc = "state"]
    /\ UNCHANGED <<audit_state, audit_head, audit_secret, audit_stops, tamper>>
    /\ UNCHANGED <<lg_threads, lg_done>>
    /\ UNCHANGED <<polVars, clockVars, probeVars, q_incidents, gwVars, opsVars, queueVars>>

\* write_audit_log: _write_prev_hash(state_path, entry_hash)
AwWriteState(t) ==
    /\ aw_threads[t].pc = "state"
    /\ audit_state' = aw_threads[t].record["hash"]
    /\ aw_threads' = [aw_threads EXCEPT ![t].pc = "head"]
    /\ UNCHANGED <<audit_exists, audit_file, audit_head, audit_secret, audit_appends,
                   audit_stops, tamper>>
    /\ UNCHANGED <<lg_threads, lg_done>>
    /\ UNCHANGED <<polVars, clockVars, probeVars, q_incidents, gwVars, opsVars, queueVars>>

\* write_audit_log: audit_head.txt is written and the call returns
AwWriteHead(t) ==
    /\ aw_threads[t].pc = "head"
    /\ audit_head' = aw_threads[t].record["hash"]
    /\ aw_threads' = [aw_threads EXCEPT ![t] = AwIdle]
    /\ UNCHANGED <<audit_exists, audit_file, audit_state, audit_secret, audit_appends,
                   audit_stops, tamper>>
    /\ UNCHANGED <<lg_threads, lg_done>>
    /\ UNCHANGED <<polVars, clockVars, probeVars, q_incidents, gwVars, opsVars, queueVars>>

NextAuditThreads ==
    \/ \E t \in HandlerThreads, ts \in 1 .. MaxAuditTs, result \in AuditResults :
          AwRead(t, ts, result)
    \/ \E t \in HandlerThreads : AwAppend(t)
    \/ \E t \in HandlerThreads : AwWriteState(t)
    \/ \E t \in HandlerThreads : AwWriteHead(t)

\* The decisions analyze hands to update_reputation
AnalyzeDecisions == {"allow", "deny", "review"}

MaxHandled == 3

\* analyze: db = load_reputation_db(); rep_before = get_state(db, agent_id)
LgLoad(t, agent_id) ==
    /\ lg_threads[t].pc = "idle"
    /\ lg_done["a1"] + lg_done["a2"]
          + Cardinality({u \in HandlerThreads : lg_threads[u].pc = "loaded"}) < MaxHandled
    /\ lg_threads' = [lg_threads EXCEPT ![t] =
          [pc |-> "loaded", db |-> get_state(ledger, agent_id, now), agent_id |-> agent_id]]
    /\ UNCHANGED <<aw_threads, lg_done>>
    /\ UNCHANGED <<polVars, auditVars, clockVars, probeVars, q_incidents, gwVars, opsVars,
                   queueVars>>

\* analyze: update_reputation(db, agent_id, decision); save_reputation_db(db)
\* replaces the whole file with the db this handler loaded and updated
LgSave(t, decision) ==
    /\ lg_threads[t].pc = "loaded"
    /\ ledger' = update_reputation(lg_threads[t].db, lg_threads[t].agent_id, decision, now)
    /\ lg_done' = [lg_done EXCEPT ![lg_threads[t].agent_id] = @ + 1]
    /\ lg_threads' = [lg_threads EXCEPT ![t] = LgIdle]
    /\ UNCHANGED <<gw_cfg, rate_events, replay_redis, replay_sqlite, oracle, gw_last,
                   gw_passed, rate_log, gw_requests, ledger_log>>
    /\ UNCHANGED aw_threads
    /\ UNCHANGED <<polVars, auditVars, clockVars, probeVars, q_incidents, opsVars, queueVars>>

NextLedgerThreads ==
    \/ \E t \in HandlerThreads, agent_id \in Agents : LgLoad(t, agent_id)
    \/ \E t \in HandlerThreads, decision \in AnalyzeDecisions : LgSave(t, decision)

(***************************************************************************)
(* The pipeline over the lifetime of a proposal                            *)
(***************************************************************************)
MaxLateTime == 6

\* Time passes, beyond the expires_ts of what the manager proposed
TickLate ==
    /\ now < MaxLateTime
    /\ now' = now + 1
    /\ kv_action' = ExpireActions(kv_action, ttl_keys, now + 1)
    /\ UNCHANGED <<q_triaged, q_decisions, q_proposed, ttl_keys, budget_zset, ops_freeze,
                   uuid_next, mgr_log, digestVars, pipeVars>>
    /\ UNCHANGED <<polVars, queueVars, threadVars, auditVars, probeVars, q_incidents, gwVars>>

NextExpiry ==
    \/ ManagerHandle
    \/ ApproverClaim
    \/ ApproverProcess
    \/ ExecutorClaim
    \/ \E rc \in DispatchOutcomes : ExecutorProcess(rc)
    \/ TickLate

(***************************************************************************)
(* Reads of a ledger that is not updated                                   *)
(***************************************************************************)
\* The ledgers after the first request of an agent, or the first two
LedgersAfterUpdates ==
    LET empty == [a \in Agents |-> NoLedgerState]
        one == {update_reputation(empty, a, d, 1) : a \in Agents, d \in AnalyzeDecisions}
    IN one \cup {update_reputation(db, a, d, 1) : db \in one, a \in Agents,
                                                   d \in AnalyzeDecisions}

NextDecayReads ==
    \/ \E agent_id \in Agents : LedgerRead(agent_id)
    \/ LedgerTick

(***************************************************************************)
(* Specifications                                                          *)
(***************************************************************************)
InitPolicy ==
    /\ InitQueueIdle
    /\ InitThreadsIdle
    /\ InitPipelineIdle
    /\ InitDigestIdle
    /\ InitManagerIdle
    /\ InitGatewayIdle
    /\ InitAuditIdle
    /\ InitClock
    /\ InitProbeIdle
    /\ q_incidents = <<>>
    /\ pol_cmd \in PolicyCommands
    /\ pol_rep \in PolicyReputations
    /\ pol_result = NoResult

SpecPolicy == InitPolicy /\ [][NextPolicy]_vars

InitAudit ==
    /\ InitQueueIdle
    /\ InitThreadsIdle
    /\ InitPipelineIdle
    /\ InitDigestIdle
    /\ InitManagerIdle
    /\ InitGatewayIdle
    /\ InitPolicyIdle
    /\ InitClock
    /\ InitProbeIdle
    /\ q_incidents = <<>>
    /\ audit_exists = FALSE
    /\ audit_file = <<>>
    /\ audit_state = NoHash
    /\ audit_head = NoHash
    /\ audit_secret \in AuditSecrets
    /\ audit_appends = 0
    /\ audit_stops = 0
    /\ tamper = NoTamper

SpecAudit == InitAudit /\ [][NextAudit]_vars

InitProbe ==
    /\ InitQueueIdle
    /\ InitThreadsIdle
    /\ InitPipelineIdle
    /\ InitDigestIdle
    /\ InitManagerIdle
    /\ InitGatewayIdle
    /\ InitPolicyIdle
    /\ InitAuditIdle
    /\ InitClock
    /\ InitProbeIdle
    /\ q_incidents = <<>>

SpecProbe == InitProbe /\ [][NextProbe]_vars

InitGateway ==
    /\ InitQueueIdle
    /\ InitThreadsIdle
    /\ InitPipelineIdle
    /\ InitDigestIdle
    /\ InitManagerIdle
    /\ InitPolicyIdle
    /\ InitAuditIdle
    /\ InitClock
    /\ InitProbeIdle
    /\ q_incidents = <<>>
    /\ gw_cfg \in SignedConfigs
    /\ rate_events = [a \in Agents |-> <<>>]
    /\ replay_redis = {}
    /\ replay_sqlite = {}
    /\ ledger = [a \in Agents |-> NoLedgerState]
    /\ oracle \in {[a \in Agents |-> -1], [a \in Agents |-> IF a = "a1" THEN 30 ELSE -1]}
    /\ gw_last = NoRequest
    /\ gw_passed = {}
    /\ rate_log = [a \in Agents |-> <<>>]
    /\ gw_requests = 0
    /\ ledger_log = <<>>

SpecGateway == InitGateway /\ [][NextGateway]_vars

InitRate ==
    /\ InitQueueIdle
    /\ InitThreadsIdle
    /\ InitPipelineIdle
    /\ InitDigestIdle
    /\ InitManagerIdle
    /\ InitPolicyIdle
    /\ InitAuditIdle
    /\ InitClock
    /\ InitProbeIdle
    /\ q_incidents = <<>>
    /\ gw_cfg \in UnsignedConfigs
    /\ rate_events = [a \in Agents |-> <<>>]
    /\ replay_redis = {}
    /\ replay_sqlite = {}
    /\ ledger = [a \in Agents |-> NoLedgerState]
    /\ oracle = [a \in Agents |-> -1]
    /\ gw_last = NoRequest
    /\ gw_passed = {}
    /\ rate_log = [a \in Agents |-> <<>>]
    /\ gw_requests = 0
    /\ ledger_log = <<>>

SpecRate == InitRate /\ [][NextRate]_vars

InitManager ==
    /\ InitQueueIdle
    /\ InitThreadsIdle
    /\ InitPipelineIdle
    /\ InitDigestIdle
    /\ InitPolicyIdle
    /\ InitAuditIdle
    /\ InitClock
    /\ InitProbeIdle
    /\ InitGatewayIdle
    /\ InitManagerIdle
    /\ q_incidents = <<>>

SpecManager == InitManager /\ [][NextManager]_vars

InitDigest ==
    /\ InitQueueIdle
    /\ InitThreadsIdle
    /\ InitPipelineIdle
    /\ InitPolicyIdle
    /\ InitAuditIdle
    /\ InitClock
    /\ InitProbeIdle
    /\ InitGatewayIdle
    /\ InitManagerIdle
    /\ q_incidents \in {<<p>> : p \in DigestPayloads}
    /\ dg_a \in DigestRecords
    /\ dg_b \in DigestRecords
    /\ dg_da = NoHash
    /\ dg_db = NoHash

SpecDigest == InitDigest /\ [][NextDigest]_vars

InitExecutor ==
    /\ InitQueueIdle
    /\ InitThreadsIdle
    /\ InitPolicyIdle
    /\ InitAuditIdle
    /\ InitClock
    /\ InitProbeIdle
    /\ InitGatewayIdle
    /\ InitManagerIdle
    /\ InitDigestIdle
    /\ InitPipelineIdle
    /\ q_incidents \in {<<p>> : p \in PipelinePayloads}

SpecExecutor == InitExecutor /\ [][NextExecutor]_vars

InitGate ==
    /\ InitQueueIdle
    /\ InitThreadsIdle
    /\ InitPipelineIdle
    /\ InitDigestIdle
    /\ InitManagerIdle
    /\ InitPolicyIdle
    /\ InitAuditIdle
    /\ InitClock
    /\ InitProbeIdle
    /\ q_incidents = <<>>
    /\ gw_cfg \in SignedConfigs
    /\ rate_events = [a \in Agents |-> <<>>]
    /\ replay_redis = {}
    /\ replay_sqlite = {}
    /\ ledger = [a \in Agents |-> NoLedgerState]
    /\ oracle \in {[a \in Agents |-> IF a = "a1" THEN score ELSE -1] : score \in GateScores}
    /\ gw_last = NoRequest
    /\ gw_passed = {}
    /\ rate_log = [a \in Agents |-> <<>>]
    /\ gw_requests = 0
    /\ ledger_log = <<>>

SpecGate == InitGate /\ [][NextGate]_vars

InitOrder ==
    /\ InitQueueIdle
    /\ InitThreadsIdle
    /\ InitPipelineIdle
    /\ InitDigestIdle
    /\ InitManagerIdle
    /\ InitPolicyIdle
    /\ InitAuditIdle
    /\ InitClock
    /\ InitProbeIdle
    /\ InitGatewayIdle
    /\ q_incidents = <<>>

SpecOrder == InitOrder /\ [][NextOrder]_vars

InitFreeze ==
    /\ InitQueueIdle
    /\ InitThreadsIdle
    /\ InitPipelineIdle
    /\ InitDigestIdle
    /\ InitManagerIdle
    /\ InitPolicyIdle
    /\ InitAuditIdle
    /\ InitClock
    /\ InitProbeIdle
    /\ InitGatewayIdle
    /\ q_incidents = <<>>

SpecFreeze == InitFreeze /\ [][NextFreeze]_vars

InitApprover ==
    /\ InitQueueIdle
    /\ InitThreadsIdle
    /\ InitPolicyIdle
    /\ InitAuditIdle
    /\ InitClock
    /\ InitProbeIdle
    /\ InitGatewayIdle
    /\ InitManagerIdle
    /\ InitDigestIdle
    /\ InitPipelineIdle
    /\ q_incidents \in {<<p>> : p \in PipelinePayloads}

SpecApprover == InitApprover /\ [][NextApprover]_vars

InitPipeline ==
    /\ InitQueueIdle
    /\ InitThreadsIdle
    /\ InitPolicyIdle
    /\ InitAuditIdle
    /\ InitClock
    /\ InitProbeIdle
    /\ InitGatewayIdle
    /\ InitManagerIdle
    /\ InitDigestIdle
    /\ InitPipelineIdle
    /\ q_incidents \in {<<p>> : p \in PipelinePayloads}

SpecPipeline == InitPipeline /\ [][NextPipeline]_vars

InitProgress ==
    /\ InitQueueIdle
    /\ InitThreadsIdle
    /\ InitPolicyIdle
    /\ InitAuditIdle
    /\ InitClock
    /\ InitProbeIdle
    /\ InitGatewayIdle
    /\ InitManagerIdle
    /\ InitDigestIdle
    /\ InitPipelineIdle
    /\ q_incidents \in {<<p>> : p \in PipelinePayloads}

SpecProgress == InitProgress /\ [][NextProgress]_vars /\ FairProgress

InitLedger ==
    /\ InitQueueIdle
    /\ InitThreadsIdle
    /\ InitPolicyIdle
    /\ InitAuditIdle
    /\ InitClock
    /\ InitProbeIdle
    /\ InitGatewayIdle
    /\ InitManagerIdle
    /\ InitDigestIdle
    /\ InitPipelineIdle
    /\ q_incidents = <<>>

SpecLedger == InitLedger /\ [][NextLedger]_vars

InitQueue ==
    /\ InitPolicyIdle
    /\ InitAuditIdle
    /\ InitClock
    /\ InitProbeIdle
    /\ InitGatewayIdle
    /\ InitManagerIdle
    /\ InitDigestIdle
    /\ InitPipelineIdle
    /\ q_incidents = <<>>
    /\ InitThreadsIdle
    /\ sq_secret \in {"qs", ""}
    /\ sq_list = <<>>
    /\ sq_log = <<>>

SpecQueue == InitQueue /\ [][NextQueue]_vars

InitReaper ==
    /\ InitPolicyIdle
    /\ InitAuditIdle
    /\ InitClock
    /\ InitProbeIdle
    /\ InitGatewayIdle
    /\ InitManagerIdle
    /\ InitDigestIdle
    /\ InitPipelineIdle
    /\ InitQueueIdle
    /\ InitThreadsIdle
    /\ q_incidents \in {<<p>> : p \in PipelinePayloads}

SpecReaper == InitReaper /\ [][NextReaper]_vars

InitAuditStops == InitAudit

SpecAuditStops == InitAuditStops /\ [][NextAuditStops]_vars

InitAuditFail == InitGate

SpecAuditFail == InitAuditFail /\ [][NextAuditFail]_vars

InitManagerShapes == InitManager

SpecManagerShapes == InitManagerShapes /\ [][NextManagerShapes]_vars

InitGuard ==
    /\ InitQueueIdle
    /\ InitThreadsIdle
    /\ InitPolicyIdle
    /\ InitAuditIdle
    /\ InitClock
    /\ InitProbeIdle
    /\ InitGatewayIdle
    /\ InitManagerIdle
    /\ InitDigestIdle
    /\ InitPipelineIdle
    /\ q_incidents \in {GuardIncidents, SubSeq(GuardIncidents, 1, 1)}

SpecGuard == InitGuard /\ [][NextGuard]_vars

InitFifo == InitGuard

SpecFifo == InitFifo /\ [][NextFifo]_vars

InitReplay == InitGateway

SpecReplay == InitReplay /\ [][NextReplay]_vars

InitAuditThreads ==
    /\ InitQueueIdle
    /\ InitThreadsIdle
    /\ InitPolicyIdle
    /\ InitAuditIdle
    /\ InitClock
    /\ InitProbeIdle
    /\ InitGatewayIdle
    /\ InitManagerIdle
    /\ InitDigestIdle
    /\ InitPipelineIdle
    /\ q_incidents = <<>>

SpecAuditThreads == InitAuditThreads /\ [][NextAuditThreads]_vars

SpecLedgerThreads == InitAuditThreads /\ [][NextLedgerThreads]_vars

SpecExpiry == InitExecutor /\ [][NextExpiry]_vars

InitDecayReads ==
    /\ InitQueueIdle
    /\ InitThreadsIdle
    /\ InitPolicyIdle
    /\ InitAuditIdle
    /\ InitClock
    /\ InitProbeIdle
    /\ InitManagerIdle
    /\ InitDigestIdle
    /\ InitPipelineIdle
    /\ q_incidents = <<>>
    /\ gw_cfg = [freeze |-> FALSE, api_key |-> "k", signing_secret |-> "s", redis_ok |-> TRUE]
    /\ rate_events = [a \in Agents |-> <<>>]
    /\ replay_redis = {}
    /\ replay_sqlite = {}
    /\ ledger \in LedgersAfterUpdates
    /\ oracle = [a \in Agents |-> -1]
    /\ gw_last = NoRequest
    /\ gw_passed = {}
    /\ rate_log = [a \in Agents |-> <<>>]
    /\ gw_requests = 0
    /\ ledger_log = <<>>

SpecDecayReads == InitDecayReads /\ [][NextDecayReads]_vars

\* ---- end of specifications ----

(***************************************************************************)
(* C1  Hard-deny supremacy                                                 *)
(***************************************************************************)

\* C1: for every command that matches at least one deny pattern and for every
\* integer reputation passed in, evaluate_command_v2 returns decision deny.
HardDenySupremacy ==
    (pol_result # NoResult /\ DenyMatches(pol_cmd) # {}) => pol_result.decision = "deny"

\* The pattern table on the concrete commands of the tests
PatternTableOK ==
    /\ \A c \in {CmdRmRfRoot, CmdRmRfStar, CmdRmFRoot, CmdRmFStar, CmdUpperRm, CmdMkfs,
                 CmdDd, CmdWipefs, CmdChmod, CmdChown, CmdNoPreserve} : DenyMatches(c) # {}
    /\ \A c \in {CmdRmFFile, CmdLs, CmdMkfsx, CmdFarm} : DenyMatches(c) = {}

(***************************************************************************)
(* C4  Audit chain validity                                                *)
(***************************************************************************)

\* C4: after N sequential write_audit_log appends starting from an empty log
\* (and no edit of the file), the first entry has prev_hash GENESIS, every
\* later entry's prev_hash is the previous entry's hash, audit.state holds the
\* last entry's hash, and verify_audit_chain returns ok with lines = N.
AuditChainValid ==
    (tamper = NoTamper /\ audit_appends >= 1) =>
        /\ audit_exists
        /\ Len(audit_file) = audit_appends
        /\ audit_file[1]["prev_hash"] = GENESIS
        /\ \A i \in 2 .. Len(audit_file) :
              audit_file[i]["prev_hash"] = audit_file[i - 1]["hash"]
        /\ audit_state = audit_file[Len(audit_file)]["hash"]
        /\ verify_audit_chain(audit_exists, audit_file, audit_secret)
              = [ok |-> TRUE, lines |-> audit_appends, line |-> 0, error |-> ""]

\* Witness of C4: three appends have been made to an unedited log
AuditThreeAppends == tamper = NoTamper /\ audit_appends = 3 /\ Len(audit_file) = 3

(***************************************************************************)
(* C5  Audit tamper detection                                              *)
(***************************************************************************)

\* C5: after one hashed field (or hash, or prev_hash) of one entry of a valid
\* chain was changed, or two entries were swapped, verify_audit_chain returns
\* ok = false with line = the line number of the first entry that no longer
\* matches (the changed line, or the first of the two swapped lines).
AuditTamperDetected ==
    tamper # NoTamper =>
        LET v == verify_audit_chain(audit_exists, audit_file, audit_secret)
        IN /\ v.ok = FALSE
           /\ v.line = tamper.line
           /\ v.error \in {"prev_hash mismatch", "hash mismatch"}
           /\ \A i \in 1 .. (tamper.line - 1) :
                 VerifyLine(audit_file[i],
                            IF i = 1 THEN GENESIS ELSE audit_file[i - 1]["hash"],
                            audit_secret) = ""

\* Witness of C5: a line that is not the last one was edited, or two lines swapped
AuditTamperedInside ==
    /\ tamper # NoTamper
    /\ tamper.line < Len(audit_file)
    /\ Len(audit_file) >= 3

(***************************************************************************)
(* C7  Edge-triggered probe                                                *)
(***************************************************************************)

\* The incidents of a service on the incidents queue
IncidentsOf(svc) == {i \in DOMAIN q_incidents : jload(q_incidents[i]).service = Txt(svc)}

\* C7: for every service the number of incidents pushed equals the number of
\* cycles in which the stored state changed from unknown or ok to fail; a
\* cycle that starts in state fail (the state stays fail, or recovers to ok)
\* pushes nothing.
EdgeTriggeredProbe ==
    /\ [](\A svc \in Services :
            /\ probe_emitted[svc] = probe_edges[svc]
            /\ Cardinality(IncidentsOf(svc)) = probe_emitted[svc])
    /\ [][\A svc \in Services :
            probe_state[svc] = "fail" =>
                /\ probe_emitted'[svc] = probe_emitted[svc]
                /\ \A i \in DOMAIN q_incidents' :
                      jload(q_incidents'[i]).service = Txt(svc) => i \in DOMAIN q_incidents]_vars

\* Witness of C7: a service failed, recovered and failed again: two incidents,
\* and its state is fail with the counter above the threshold
ProbeTwoEdges ==
    \E svc \in Services :
        /\ probe_emitted[svc] = 2
        /\ probe_state[svc] = "fail"
        /\ probe_failcount[svc] > FAIL_THRESHOLD

\* C2: once a request carrying a triple (agent_id, command, ts_unix) has passed
\* the replay check-and-set, every later request with the same triple that
\* arrives within TIME_WINDOW_SEC and passes the earlier checks is answered 409.
ReplayUniqueness ==
    gw_last.seen_before => gw_last.status = 409

\* C3: an admission attempt of an agent is admitted exactly when fewer than
\* RATE_LIMIT_MAX admitted attempts of that agent lie within the last
\* RATE_LIMIT_WINDOW_SEC seconds; a rejected attempt is answered 429 and adds no
\* entry, so the deque holds exactly the admitted times still in the window.
AdmittedWithin(log, k) ==
    {j \in 1 .. (k - 1) : log[j].admitted /\ log[j].at >= log[k].at - RATE_LIMIT_WINDOW_SEC}

RECURSIVE AdmittedTimes(_, _)
AdmittedTimes(log, cutoff) ==
    IF log = <<>> THEN <<>>
    ELSE IF Head(log).admitted /\ Head(log).at >= cutoff
         THEN <<Head(log).at>> \o AdmittedTimes(Tail(log), cutoff)
         ELSE AdmittedTimes(Tail(log), cutoff)

RateLimitExact ==
    /\ \A a \in Agents :
         LET log == rate_log[a]
         IN /\ \A k \in DOMAIN log :
                 log[k].admitted <=> Cardinality(AdmittedWithin(log, k)) < RATE_LIMIT_MAX
            /\ log # <<>> =>
                 rate_events[a] = AdmittedTimes(log, log[Len(log)].at - RATE_LIMIT_WINDOW_SEC)
            /\ log = <<>> => rate_events[a] = <<>>
    /\ gw_last.stage # "none" /\ gw_last.stage # "frozen" =>
         LET log == rate_log[gw_last.agent_id]
         IN (gw_last.status = 429) <=> ~log[Len(log)].admitted

\* An agent was admitted RATE_LIMIT_MAX times, rejected, and admitted again
\* once the oldest admission had left the window
RateLimitResumed ==
    \E a \in Agents :
        /\ Len(rate_log[a]) = RATE_LIMIT_MAX + 2
        /\ \A k \in 1 .. RATE_LIMIT_MAX : rate_log[a][k].admitted
        /\ ~rate_log[a][RATE_LIMIT_MAX + 1].admitted
        /\ rate_log[a][RATE_LIMIT_MAX + 2].admitted
        /\ gw_last.agent_id = a /\ gw_last.status = 200

(***************************************************************************)
(* C10  Manager dedupe                                                     *)
(***************************************************************************)
\* The k-th handled payload is an incident whose fingerprint was not seen before
FirstWithFp(k) ==
    /\ mgr_log[k].valid
    /\ \A j \in 1 .. (k - 1) : ~(mgr_log[j].valid /\ mgr_log[j].fp = mgr_log[k].fp)

\* What the manager does with a further incident of a known fingerprint while
\* the dedupe key is live: suppressed, nothing triaged, written or pushed
SuppressedByDedupe(k) ==
    LET e == mgr_log[k]
    IN (e.valid /\ ~FirstWithFp(k) /\ e.dedupe_live) =>
          /\ e.suppressed
          /\ e.triaged = 0
          /\ e.created = {}
          /\ e.rewritten = {}
          /\ e.pushed = 0

\* C10 as stated: the first incident with a given fingerprint produces a
\* decision record with suppressed = false, a triaged document and (proposing
\* enabled, recommendation restart_service) one proposed action with type
\* restart_service and target = the incident's service; every further incident
\* with that fingerprint handled while the dedupe key is live is suppressed
\* and produces no triaged document, no action record and no push.
ManagerDedupe ==
    \A k \in DOMAIN mgr_log :
        LET e == mgr_log[k]
        IN /\ FirstWithFp(k) =>
                /\ ~e.suppressed
                /\ e.triaged = 1
                /\ (ENABLE_PROPOSE /\ e.rec_type = RESTART_SERVICE) =>
                      /\ e.pushed = 1
                      /\ Cardinality(e.created) = 1
                      /\ \A a \in e.created :
                            a.type = RESTART_SERVICE /\ a.target = e.service
           /\ SuppressedByDedupe(k)

\* C10 amended: the proposed action of a first incident exists exactly when no
\* proposal gate is closed (global freeze, action budget, target cooldown), and
\* its target is the incident's service stripped of white space, or
\* sentinel-api when the incident names no service.
ManagerDedupeGated ==
    \A k \in DOMAIN mgr_log :
        LET e == mgr_log[k]
            gate_open == /\ ~_global_freeze_active(e.frozen)
                         /\ e.budget_used < BUDGET_MAX
                         /\ ~e.cooldown_live
        IN /\ FirstWithFp(k) =>
                /\ ~e.suppressed
                /\ e.triaged = 1
                /\ (ENABLE_PROPOSE /\ e.rec_type = RESTART_SERVICE /\ gate_open) =>
                      /\ e.pushed = 1
                      /\ Cardinality(e.created) = 1
                      /\ \A a \in e.created :
                            /\ a.type = RESTART_SERVICE
                            /\ a.target = Strip(OrDefault(e.service, DEFAULT_SERVICE))
                /\ ~(ENABLE_PROPOSE /\ e.rec_type = RESTART_SERVICE /\ gate_open) =>
                      e.pushed = 0 /\ e.created = {}
           /\ SuppressedByDedupe(k)

\* Witness of C10: two incidents with one fingerprint were handled; the first
\* was triaged and proposed, the second arrived while the dedupe key was live
ManagerSuppressedSecond ==
    \E j, k \in DOMAIN mgr_log :
        /\ j < k
        /\ FirstWithFp(j)
        /\ mgr_log[j].pushed = 1
        /\ mgr_log[k].valid
        /\ mgr_log[k].fp = mgr_log[j].fp
        /\ mgr_log[k].dedupe_live
        /\ mgr_log[k].suppressed

(***************************************************************************)
(* C8  Digest immutability                                                 *)
(***************************************************************************)
\* The (type, target, params) of an action as stored
IntentOf(action) == <<action.type, action.target, action.params>>

\* The (type, target, params) digest_action hashes
NormalisedIntent(action) ==
    <<Strip(OrEmpty(action.type)), Strip(OrEmpty(action.target)), OrEmptyDict(action.params)>>

\* Every record in the store carries the digest of its own action
StoredDigestMatches ==
    \A id \in DOMAIN kv_action :
        jload(kv_action[id]).digest = digest_action(jload(kv_action[id]).action)

\* C8 as stated: two actions with equal type, target and params have equal
\* digests whatever the other fields are, two actions differing in type,
\* target or params have different digests, and the digest the manager stores
\* in a new record equals digest_action of that record's action.
DigestImmutability ==
    /\ dg_da # NoHash =>
          (IntentOf(dg_a.action) = IntentOf(dg_b.action)) <=> (dg_da = dg_db)
    /\ StoredDigestMatches

\* C8 amended: the digests differ exactly when the actions differ in type or
\* target after stripping white space, or in params with a missing dict read
\* as the empty dict.
DigestOfNormalisedIntent ==
    /\ dg_da # NoHash =>
          /\ (NormalisedIntent(dg_a.action) = NormalisedIntent(dg_b.action)) <=> (dg_da = dg_db)
          /\ (IntentOf(dg_a.action) = IntentOf(dg_b.action)) => (dg_da = dg_db)
    /\ StoredDigestMatches

\* Witness of C8: two records with one intent but different reason, manager,
\* timestamp, fingerprint and incident were digested, and the manager has
\* stored a record
DigestEqualIntent ==
    /\ dg_da # NoHash
    /\ IntentOf(dg_a.action) = IntentOf(dg_b.action)
    /\ dg_a.action.reason # dg_b.action.reason
    /\ dg_a.manager # dg_b.manager
    /\ dg_a.created_ts # dg_b.created_ts
    /\ dg_da = dg_db
    /\ kv_action # <<>>

(***************************************************************************)
(* C6  Idempotent execution                                                *)
(***************************************************************************)
\* The delivered item is an approved action: it is a message whose type and
\* target are allowed and whose approved digest is the digest of its intent
DeliveredApproved(item) ==
    /\ IsJson(item)
    /\ _allowed(ExecutorReading(item).action_type, ExecutorReading(item).target).ok
    /\ ExecutorReading(item).approved_digest # NoHash
    /\ ExecutorReading(item).approved_digest = ExecutorReading(item).computed

\* The k-th delivery had no effect: no dispatch, no write to the canonical
\* record, no push to the executed or the rejected queue
DroppedSilently(k) ==
    /\ exec_log[k].dispatched = {}
    /\ ~exec_log[k].kv_changed
    /\ exec_log[k].pushed_executed = 0
    /\ exec_log[k].pushed_rejected = 0

\* C6: an approved action delivered while the idempotency key of its
\* action_id is live is dropped without a dispatch, a write or a push; two
\* dispatches of one action_id are further apart than the life of the key; and
\* every dispatch records exactly one executed or failed event.
IdempotentExecution ==
    /\ \A k \in DOMAIN exec_log :
          (DeliveredApproved(exec_log[k].item) /\ exec_log[k].done_live) => DroppedSilently(k)
    /\ \A j, k \in DOMAIN exec_log :
          (j < k /\ exec_log[j].dispatched # {} /\ exec_log[k].dispatched # {}
             /\ exec_log[j].id = exec_log[k].id)
          => exec_log[k].at > exec_log[j].at + IDEMPOTENCY_TTL_SEC
    /\ \A k \in DOMAIN exec_log :
          exec_log[k].dispatched # {} =>
             /\ Cardinality(exec_log[k].dispatched) = 1
             /\ exec_log[k].status \in {"executed", "failed"}
             /\ exec_log[k].pushed_executed + exec_log[k].pushed_rejected = 1
             /\ (exec_log[k].status = "executed") <=> (exec_log[k].pushed_executed = 1)

\* Witness of C6: a message was dispatched, the same message was delivered
\* again while the key was live, and the second delivery was dropped
IdempotentSecondDropped ==
    \E j, k \in DOMAIN exec_log :
        /\ j < k
        /\ exec_log[j].dispatched # {}
        /\ exec_log[k].item = exec_log[j].item
        /\ exec_log[k].done_live
        /\ exec_log[k].what = "dropped"

(***************************************************************************)
(* C9  Executor digest re-verification                                     *)
(***************************************************************************)
\* The k-th delivery is a message, and m is the message the approver pushed
\* for its action_id
ApprovedAs(k, m) ==
    /\ IsJson(exec_log[k].item)
    /\ m \in approved_sent
    /\ ExecutorReading(m).action_id = exec_log[k].id

\* The k-th delivery was rejected and nothing was dispatched
RejectedNoDispatch(k) ==
    exec_log[k].what = "rejected" /\ exec_log[k].dispatched = {}

\* Every dispatch is of the type, target and params whose digest is the
\* approved digest of the delivered message
DispatchOnlyOnDigestMatch ==
    \A k \in DOMAIN exec_log : \A d \in exec_log[k].dispatched :
        LET rd == ExecutorReading(exec_log[k].item)
        IN /\ rd.approved_digest # NoHash
           /\ digest_action([type |-> d.type, target |-> d.target,
                             params |-> Get(rd.action, "params", NoneDict)])
                 = rd.approved_digest

\* A delivery without an approved digest is rejected
MissingDigestRejected ==
    \A k \in DOMAIN exec_log :
        (IsJson(exec_log[k].item)
           /\ _allowed(ExecutorReading(exec_log[k].item).action_type,
                       ExecutorReading(exec_log[k].item).target).ok
           /\ ExecutorReading(exec_log[k].item).approved_digest = NoHash)
        => RejectedNoDispatch(k)

\* C9 as stated: the executor dispatches only on a digest match; a message
\* whose reason alone was changed after approval is still dispatched; a message
\* whose type, target or params was changed after approval, or whose approved
\* digest is missing, is rejected and nothing is dispatched.
DigestReverification ==
    /\ DispatchOnlyOnDigestMatch
    /\ MissingDigestRejected
    /\ \A k \in DOMAIN exec_log : \A m \in approved_sent :
          LET rd == ExecutorReading(exec_log[k].item)
              orig == ExecutorReading(m)
          IN ApprovedAs(k, m) =>
                /\ (IntentOf(rd.action) = IntentOf(orig.action)
                      /\ rd.action.reason # orig.action.reason
                      /\ rd.approved_digest = orig.approved_digest
                      /\ ~exec_log[k].done_live)
                   => exec_log[k].dispatched # {}
                /\ IntentOf(rd.action) # IntentOf(orig.action) => RejectedNoDispatch(k)

\* C9 amended: a message is rejected when its type or target after stripping
\* white space, or its params with a missing dict read as {}, differ from the
\* approved ones while the approved digest is the approver's; a change that
\* leaves them equal is dispatched like a change of the reason.
DigestReverificationNormalised ==
    /\ DispatchOnlyOnDigestMatch
    /\ MissingDigestRejected
    /\ \A k \in DOMAIN exec_log : \A m \in approved_sent :
          LET rd == ExecutorReading(exec_log[k].item)
              orig == ExecutorReading(m)
          IN ApprovedAs(k, m) =>
                /\ (NormalisedIntent(rd.action) = NormalisedIntent(orig.action)
                      /\ rd.approved_digest = orig.approved_digest
                      /\ ~exec_log[k].done_live)
                   => exec_log[k].dispatched # {}
                /\ (NormalisedIntent(rd.action) # NormalisedIntent(orig.action)
                      /\ rd.approved_digest = orig.approved_digest)
                   => RejectedNoDispatch(k)

\* Witness of C9: one delivery whose reason was changed after approval was
\* dispatched, and one whose target was changed was rejected
ReasonDispatchedTargetRejected ==
    \E j, k \in DOMAIN exec_log : \E m \in approved_sent :
        /\ ApprovedAs(j, m)
        /\ ApprovedAs(k, m)
        /\ IntentOf(ExecutorReading(exec_log[j].item).action) = IntentOf(ExecutorReading(m).action)
        /\ ExecutorReading(exec_log[j].item).action.reason # ExecutorReading(m).action.reason
        /\ exec_log[j].dispatched # {}
        /\ ExecutorReading(exec_log[k].item).target # ExecutorReading(m).target
        /\ ExecutorReading(exec_log[k].item).approved_digest = ExecutorReading(m).approved_digest
        /\ RejectedNoDispatch(k)

(***************************************************************************)
(* C20  Policy evaluation order                                            *)
(***************************************************************************)
\* The decision, risk and risk score of the evaluation that was made
PolicyVerdict == <<pol_result.decision, pol_result.risk, pol_result.risk_score>>

\* C20: evaluate_command_v2 returns the result of the first matching rule in
\* the order reputation <= DENY_AT (deny, high, 0.99), reputation <= REVIEW_AT
\* (review, medium, 0.60), a deny pattern matches (deny, high, 0.95), otherwise
\* (allow, low, 0.05); with reputation 0 the four root-delete commands are
\* denied with high risk and rm -f /home/user/file.txt is allowed with low risk.
PolicyEvaluationOrder ==
    pol_result # NoResult =>
        /\ pol_rep <= REP_DENY_AT => PolicyVerdict = <<"deny", "high", 99>>
        /\ (pol_rep > REP_DENY_AT /\ pol_rep <= REP_REVIEW_AT)
              => PolicyVerdict = <<"review", "medium", 60>>
        /\ (pol_rep > REP_DENY_AT /\ pol_rep > REP_REVIEW_AT /\ DenyMatches(pol_cmd) # {})
              => PolicyVerdict = <<"deny", "high", 95>>
        /\ (pol_rep > REP_DENY_AT /\ pol_rep > REP_REVIEW_AT /\ DenyMatches(pol_cmd) = {})
              => PolicyVerdict = <<"allow", "low", 5>>
        /\ (pol_rep = 0 /\ pol_cmd \in {CmdRmRfRoot, CmdRmRfStar, CmdRmFRoot, CmdRmFStar})
              => (pol_result.decision = "deny" /\ pol_result.risk = "high")
        /\ (pol_rep = 0 /\ pol_cmd = CmdRmFFile)
              => (pol_result.decision = "allow" /\ pol_result.risk = "low")

\* Witness of C20: a command that matches a deny pattern was evaluated with a
\* reputation in the review band and the second rule won
PolicyReviewBeforePattern ==
    /\ pol_result # NoResult
    /\ pol_cmd = CmdRmFStar
    /\ pol_rep = REP_REVIEW_AT
    /\ PolicyVerdict = <<"review", "medium", 60>>

(***************************************************************************)
(* C16  Score-based reputation gate                                        *)
(***************************************************************************)
\* The decision the gate of /analyze prescribes for an allow
GatedAllow(score) ==
    IF score < REP_AUTO_DENY THEN "deny"
    ELSE IF score < REP_AUTO_REVIEW THEN "review"
    ELSE "allow"

\* C16: the final decision of an evaluated /analyze request differs from the
\* decision of evaluate_command_v2 only when that decision is allow: then it is
\* deny below REP_AUTO_DENY, else review below REP_AUTO_REVIEW, else allow; a
\* deny or a review of evaluate_command_v2 is the final decision at every
\* oracle score.
ScoreGateOnlyOnAllow ==
    gw_last.stage = "ok" =>
        /\ gw_last.policy_decision = "allow" =>
              gw_last.decision = GatedAllow(gw_last.rep_score_before)
        /\ gw_last.policy_decision \in {"deny", "review"} =>
              gw_last.decision = gw_last.policy_decision
        /\ \A score \in GateScores, res \in {PolicyTable[c, rp] : c \in GwCommands, rp \in GateReputations} :
              res.decision \in {"deny", "review"} =>
                 ScoreGate(res, get_rep([a \in Agents |-> score], "a1")) = res

\* Witness of C16: a pattern deny was answered as deny while the oracle score
\* of the agent was below REP_AUTO_DENY, and the agent's score was then lowered
GateLeavesDenyAtLowScore ==
    /\ gw_last.stage = "ok"
    /\ gw_last.policy_decision = "deny"
    /\ gw_last.rep_score_before = REP_AUTO_DENY - 1
    /\ gw_last.decision = "deny"
    /\ oracle[gw_last.agent_id] = REP_AUTO_DENY - 9

(***************************************************************************)
(* C13  Analyze check order                                                *)
(***************************************************************************)
\* The first check of the sequence that is in the set, "ok" when none is
RECURSIVE FirstFailed(_, _)
FirstFailed(order, failed) ==
    IF order = <<>> THEN "ok"
    ELSE IF Head(order) \in failed THEN Head(order)
    ELSE FirstFailed(Tail(order), failed)

\* The six checks of the signed mode in their order, and their errors
SixChecks == <<"rate", "apikey", "nosig", "window", "replay", "badsig">>
SevenChecks == <<"rate", "apikey", "nosig", "badts", "window", "replay", "badsig">>

CheckStatus(ck) ==
    CASE ck = "rate" -> 429
      [] ck \in {"apikey", "nosig", "window", "badsig"} -> 401
      [] ck = "badts" -> 400
      [] ck = "replay" -> 409
      [] OTHER -> 200

\* A request answered with an error leaves the ledger, the oracle and the
\* audit log as they were
ErrorsEvaluateNothing ==
    [][(gw_requests' # gw_requests /\ gw_last'.status # 200)
          => UNCHANGED <<ledger, oracle, auditVars>>]_vars

OtherRoutes == {"health", "stats", "audit_head", "audit_verify", "status"}

\* C14: while GLOBAL_FREEZE is on every /analyze request is answered 503 with
\* no decision and leaves the rate window, the replay stores, the ledger, the
\* oracle and the audit log as they were; health, stats, audit head and audit
\* verify answer 200 with the current state, and status answers as its own
\* checks decide, 200 for a request with valid credentials.
GatewayGlobalFreeze ==
    /\ [][(gw_cfg.freeze /\ gw_requests' # gw_requests)
            => /\ gw_last'.status = 503
               /\ gw_last'.decision = "none"
               /\ gw_last'.policy_decision = "none"
               /\ UNCHANGED <<rate_events, replay_redis, replay_sqlite, ledger, oracle,
                              auditVars>>]_vars
    /\ [][(gw_cfg.freeze /\ gw_last'.stage \in OtherRoutes /\ gw_last' # gw_last)
            => /\ gw_last'.status # 503
               /\ gw_last'.stage \in {"health", "stats", "audit_head", "audit_verify"}
                     => gw_last'.status = 200
               /\ gw_last'.stage \in {"health", "stats"} => gw_last'.answer.global_freeze
               /\ gw_last'.stage = "audit_head" => gw_last'.answer = get_audit_head
               /\ gw_last'.stage = "audit_verify" =>
                     gw_last'.answer = verify_audit_chain(audit_exists, audit_file, audit_secret)
               /\ (gw_last'.stage = "status" /\ gw_last'.status = 200) =>
                     gw_last'.answer = StatusBody(gw_last'.agent_id)
               /\ UNCHANGED <<rate_events, replay_redis, replay_sqlite, ledger, oracle,
                              auditVars>>]_vars
    /\ [][(gw_cfg.freeze /\ gw_last'.stage = "status" /\ gw_last' # gw_last)
            => \E req \in FreezeRequests :
                  /\ gw_last'.status = StatusOf(StatusStage(req))
                  /\ (req.x_api_key = gw_cfg.api_key /\ ~OutsideWindow(now, req.x_timestamp_unix))
                        => gw_last'.status = 200]_vars

\* Witness of C14: the gateway evaluated a request, was started again with the
\* freeze on, answered /analyze with 503 and then answered the status route
\* with 200 and the audit head of the evaluated request
FrozenAfterEvaluation ==
    /\ gw_cfg.freeze
    /\ audit_appends = 1
    /\ gw_requests = 2
    /\ replay_redis # {}
    /\ gw_last.stage = "status"
    /\ gw_last.status = 200
    /\ gw_last.answer.audit[1] = audit_state

(***************************************************************************)
(* C12  Approver gate                                                      *)
(***************************************************************************)
\* The canonical record the approver found for the k-th id it processed
FoundRecord(k) == jload(ap_log[k].before)

\* The record exists, its type and target are allowlisted, and its stored
\* digest is present and is the digest of its action
PassesGate(k) ==
    /\ ap_log[k].before # NoItem
    /\ LET action == Get(FoundRecord(k), "action", EmptyDict)
           action_type == Strip(OrEmpty(Get(action, "type", NoneVal)))
           target == Strip(OrEmpty(Get(action, "target", NoneVal)))
           stored == Get(FoundRecord(k), "digest", NoneVal)
       IN /\ ALLOWED_TYPES = {} \/ action_type \in ALLOWED_TYPES
          /\ ALLOWED_TARGETS = {} \/ target \in ALLOWED_TARGETS
          /\ stored # NoneVal
          /\ stored = digest_action(action)

\* The k-th id was approved: status approved, one message on the approved
\* queue, nothing on the rejected queue
WasApproved(k) ==
    /\ jload(ap_log[k].after).status = "approved"
    /\ Len(ap_log[k].pushed_approved) = 1
    /\ ap_log[k].pushed_rejected = <<>>

\* The k-th id was rejected: status rejected, nothing on the approved queue,
\* one entry on the rejected queue
WasRejected(k) ==
    /\ jload(ap_log[k].after).status = "rejected"
    /\ ap_log[k].pushed_approved = <<>>
    /\ Len(ap_log[k].pushed_rejected) = 1

ExecutorGlobalFreeze ==
    [][ops_freeze =>
          /\ ~(ex_item = NoItem /\ ex_item' # NoItem)
          /\ Len(exec_log') > Len(exec_log) => exec_log'[Len(exec_log')].dispatched = {}]_vars

(***************************************************************************)
(* C11  Status monotonicity                                                *)
(***************************************************************************)
StatusOfAction(kv, action_id) == Get(jload(kv[action_id]), "status", "")

\* The moves of the status of a canonical record that the pipeline allows
StatusMoveAllowed(old, new) ==
    \/ old = new
    \/ old = "proposed" /\ new \in {"approved", "rejected", "quarantined"}
    \/ old = "approved" /\ new \in {"executed", "failed", "rejected", "quarantined"}

\* C11 as stated: in every step the status of every canonical record stays or
\* moves proposed -> approved -> executed or failed, or to rejected or
\* quarantined; it never moves backward and a terminal status never changes.
StatusMonotonicity ==
    [][\A action_id \in DOMAIN kv_action \cap DOMAIN kv_action' :
          StatusMoveAllowed(StatusOfAction(kv_action, action_id),
                            StatusOfAction(kv_action', action_id))]_vars

(***************************************************************************)
(* C19  Field ownership                                                    *)
(***************************************************************************)
\* The fields of a record other than the given ones
OtherFields(rec, own) == [k \in DOMAIN rec \ own |-> rec[k]]

\* The fields the writer of a step owns: the approver, the executor or the
\* reaper, told by the log that grew
OwnedFields(approver, executor) ==
    IF approver THEN {"status", "approval", "rejection"}
    ELSE IF executor THEN {"status", "execution"}
    ELSE {"status", "reaper"}

\* C19 as stated: a write of the approver, the executor or the reaper to an
\* existing canonical record changes only the writer's own fields; every other
\* field keeps the value it had in the record immediately before the write.
FieldOwnership ==
    [][\A action_id \in DOMAIN kv_action \cap DOMAIN kv_action' :
          kv_action'[action_id] # kv_action[action_id] =>
             LET own == OwnedFields(Len(ap_log') > Len(ap_log), Len(exec_log') > Len(exec_log))
             IN OtherFields(jload(kv_action'[action_id]), own)
                   = OtherFields(jload(kv_action[action_id]), own)]_vars

(***************************************************************************)
(* C17  Reaper recovery                                                    *)
(***************************************************************************)
\* C17 as stated: an inflight item that no worker holds and whose action has
\* no terminal status leaves the inflight list only by being requeued or
\* quarantined; the reaper never drops it.
ReaperRecovery ==
    \A k \in DOMAIN reap_log :
        (~reap_log[k].held /\ reap_log[k].status \in {"proposed", "approved"})
        => reap_log[k].what \in {"requeued", "quarantined"}

(***************************************************************************)
(* C18  Pipeline progress                                                  *)
(***************************************************************************)
\* The ids the manager can give to the proposal of the one incident
ProposalIds == {ActionId(t, 0) : t \in 1 .. MaxTime}

HasStatus(action_id, statuses) ==
    action_id \in DOMAIN kv_action /\ StatusOfAction(kv_action, action_id) \in statuses

\* The one incident gives at most one canonical record, under an id of the
\* manager, and the record stays
OneProposal ==
    /\ [](DOMAIN kv_action \subseteq ProposalIds /\ Cardinality(DOMAIN kv_action) <= 1)
    /\ [][DOMAIN kv_action \subseteq DOMAIN kv_action']_vars

\* The iterations the fairness conditions name are the steps of the handlers
FinishesAreHandlers ==
    [][/\ ApproverFinishes <=> ApproverProcess
       /\ ExecutorFinishes <=> \E rc \in DispatchOutcomes : ExecutorProcess(rc)]_vars

LedgerDelta(decision) ==
    CASE NormDecision(decision) = "allow" -> 1
      [] NormDecision(decision) = "deny"  -> -2
      [] OTHER                            -> -1

\* The counter update_reputation increments for a decision
LedgerCounter(decision) ==
    CASE NormDecision(decision) = "allow" -> "allowed"
      [] NormDecision(decision) = "deny"  -> "blocked"
      [] OTHER                            -> "reviewed"

\* The entry of the agent as a read at the time of the call would return it
DecayedBefore(e) == get_state(e.before, e.agent_id, e.at)[e.agent_id]

\* The number of updates applied to the agent
UpdatesOf(agent_id) ==
    Cardinality({k \in DOMAIN ledger_log :
                    ledger_log[k].op = "update" /\ ledger_log[k].agent_id = agent_id})

\* C21: update_reputation first applies the decay, then adds +1 (allow), -1
\* (review or anything else) or -2 (deny) to the reputation, increments exactly
\* one of allowed, reviewed and blocked by 1, sets last_decision and writes
\* updated_at; the three counters of an agent add up to the number of updates
\* applied to it.
LedgerUpdateExact ==
    /\ \A k \in DOMAIN ledger_log :
          LET e == ledger_log[k]
              b == DecayedBefore(e)
              a == e.after[e.agent_id]
          IN e.op = "update" =>
                /\ a.reputation = b.reputation + LedgerDelta(e.decision)
                /\ \A c \in {"allowed", "reviewed", "blocked"} :
                      a[c] = b[c] + (IF c = LedgerCounter(e.decision) THEN 1 ELSE 0)
                /\ a.last_decision \in {"allow", "review", "deny"}
                /\ (a.last_decision = "allow") <=> (LedgerCounter(e.decision) = "allowed")
                /\ (a.last_decision = "deny") <=> (LedgerCounter(e.decision) = "blocked")
                /\ a.updated_at = e.at
                /\ \A other \in Agents \ {e.agent_id} : e.after[other] = e.before[other]
    /\ \A agent_id \in Agents :
          ledger[agent_id].allowed + ledger[agent_id].blocked + ledger[agent_id].reviewed
             = UpdatesOf(agent_id)

\* Witness of C21: an update found a reputation that the decay changed first,
\* and the agent has two updates on its counters
UpdatedAfterDecay ==
    \E k \in DOMAIN ledger_log :
        /\ ledger_log[k].op = "update"
        /\ DecayedBefore(ledger_log[k]).reputation
              # ledger_log[k].before[ledger_log[k].agent_id].reputation
        /\ UpdatesOf(ledger_log[k].agent_id) = 2
        /\ ledger[ledger_log[k].agent_id].allowed = 1
        /\ ledger[ledger_log[k].agent_id].blocked = 1

(***************************************************************************)
(* C22  Ledger decay                                                       *)
(***************************************************************************)
Abs(x) == IF x < 0 THEN -x ELSE x

\* The whole decay periods between the last write of the entry and the read
WholePeriods(e) ==
    (e.at - e.before[e.agent_id].updated_at) \div DECAY_PERIOD_SEC

\* C22: a read through get_state of an entry moves its reputation toward 0 by
\* DECAY_STEP for every whole DECAY_PERIOD_SEC since updated_at and stops at
\* 0: the absolute value never grows, the sign never flips, a reputation of 0
\* stays 0, and updated_at advances exactly when the value changed.
LedgerDecay ==
    \A k \in DOMAIN ledger_log :
        LET e == ledger_log[k]
            b == e.before[e.agent_id]
            a == e.after[e.agent_id]
        IN (e.op = "read" /\ b.present) =>
              /\ Abs(a.reputation) = Max2(0, Abs(b.reputation) - WholePeriods(e) * DECAY_STEP)
              /\ a.reputation * b.reputation >= 0
              /\ Abs(a.reputation) <= Abs(b.reputation)
              /\ b.reputation = 0 => a.reputation = 0
              /\ IF a.reputation # b.reputation
                 THEN a.updated_at = e.at /\ a.updated_at > b.updated_at
                 ELSE a.updated_at = b.updated_at
              /\ [a EXCEPT !.reputation = 0, !.updated_at = 0]
                    = [b EXCEPT !.reputation = 0, !.updated_at = 0]

\* Witness of C22: a read two whole periods after the write of a reputation of
\* 1 returned 0, and updated_at is the time of the read
DecayStoppedAtZero ==
    \E k \in DOMAIN ledger_log :
        /\ ledger_log[k].op = "read"
        /\ ledger_log[k].before[ledger_log[k].agent_id].present
        /\ ledger_log[k].before[ledger_log[k].agent_id].reputation = 1
        /\ WholePeriods(ledger_log[k]) >= 2
        /\ ledger_log[k].after[ledger_log[k].agent_id].reputation = 0
        /\ ledger_log[k].after[ledger_log[k].agent_id].updated_at = ledger_log[k].at

(***************************************************************************)
(* C23  Signed envelope                                                    *)
(***************************************************************************)
\* The text is an envelope whose sig is the HMAC, under the secret, of the
\* canonical {v, ts, payload} it carries
AuthenticEnvelope(secret, raw) ==
    /\ IsJson(raw)
    /\ IsJDict(jload(raw))
    /\ {"payload", "sig", "ts"} \subseteq DOMAIN jload(raw)[2]
    /\ jload(raw)[2].sig = JStr(_hmac_sig(secret, _jdump(UnsignedOf(jload(raw)))))

\* C23: with queue signing enabled, qpop of what qpush wrote returns the
\* payload pushed, and qpop returns None for every text that is not an
\* envelope with the HMAC of its canonical {v, ts, payload} as sig, a pushed
\* envelope whose payload or ts was altered included.
SignedEnvelope ==
    sq_secret # "" =>
        /\ \A j, k \in DOMAIN sq_log :
              (sq_log[j].op = "push" /\ sq_log[k].op = "pop" /\ sq_log[k].raw = sq_log[j].raw)
              => sq_log[k].result = sq_log[j].payload
        /\ \A k \in DOMAIN sq_log :
              (sq_log[k].op = "pop" /\ ~AuthenticEnvelope(sq_secret, sq_log[k].raw))
              => sq_log[k].result = JNull

\* The same with an exception counted as "no payload": qpop never returns a
\* payload from a text that is not an authentic envelope
NoPayloadFromForgery ==
    sq_secret # "" =>
        /\ \A j, k \in DOMAIN sq_log :
              (sq_log[j].op = "push" /\ sq_log[k].op = "pop" /\ sq_log[k].raw = sq_log[j].raw)
              => sq_log[k].result = sq_log[j].payload
        /\ \A k \in DOMAIN sq_log :
              (sq_log[k].op = "pop" /\ ~AuthenticEnvelope(sq_secret, sq_log[k].raw))
              => sq_log[k].result \in {JNull, Raised("TypeError")}

(***************************************************************************)
(* C24  Reaper requeue bound                                               *)
(***************************************************************************)
\* The number of times x occurs in the list q
Occurrences(q, x) == Cardinality({i \in DOMAIN q : q[i] = x})

\* The entries a step of the reaper adds to its log
NewReapEntries == {k \in DOMAIN reap_log' : k > Len(reap_log)}

\* The number of new entries of one kind for one item
NewReaps(item, what) ==
    Cardinality({k \in NewReapEntries : reap_log'[k].item = item /\ reap_log'[k].what = what})

\* What a stale detection does to the queues and the record: a requeue is one
\* push to the origin queue and none to the quarantine queue, a quarantine is
\* one push to the quarantine queue and none to the origin queue, with the
\* status quarantined; the inflight token is gone in both cases
StaleDetectionEffects ==
    [][\A k \in NewReapEntries :
          LET e == reap_log'[k]
              proposed == e.origin = "proposed"
          IN e.what \in {"requeued", "quarantined"} =>
                /\ Occurrences(IF proposed THEN q_proposed' ELSE q_approved', e.item)
                      = Occurrences(IF proposed THEN q_proposed ELSE q_approved, e.item)
                           + NewReaps(e.item, "requeued")
                /\ Occurrences(q_quarantine', e.item)
                      = Occurrences(q_quarantine, e.item) + NewReaps(e.item, "quarantined")
                /\ NewReaps(e.item, "quarantined") <= 1
                /\ Occurrences(IF proposed THEN q_proposed_inflight' ELSE q_approved_inflight',
                               e.item) = 0
                /\ (e.what = "quarantined") <=> (e.status_after = "quarantined")]_vars

\* A requeue or a quarantine
IsDetection(k) == reap_log[k].what \in {"requeued", "quarantined"}

\* C24 as stated: for every action and origin the reaper pushes the action
\* back to the origin queue at most MAX_REQUEUES times; the stale detection
\* that raises the counter above MAX_REQUEUES sets the status quarantined and
\* pushes the id to the quarantine queue once and not to the origin queue; the
\* inflight token is removed in both cases.
ReaperRequeueBound ==
    /\ [](\A j \in DOMAIN reap_log :
             /\ Cardinality({k \in DOMAIN reap_log :
                    /\ reap_log[k].what = "requeued"
                    /\ reap_log[k].item = reap_log[j].item
                    /\ reap_log[k].origin = reap_log[j].origin}) <= MAX_REQUEUES
             /\ IsDetection(j) =>
                   (reap_log[j].what = "quarantined") <=> (reap_log[j].count > MAX_REQUEUES))
    /\ StaleDetectionEffects

\* C24 amended: the bound holds while the counter key lives. Every stale
\* detection adds 1 to the live counter, or starts at 1 when the key has
\* expired (REQUEUE_COUNT_TTL_SEC after the last detection); it requeues when
\* the result is at most MAX_REQUEUES and quarantines otherwise; two detections
\* of an action and origin that are less than REQUEUE_COUNT_TTL_SEC apart have
\* different, growing counter values, so at most MAX_REQUEUES of them requeue.
ReaperRequeueBoundWhileCounted ==
    /\ [](/\ \A j \in DOMAIN reap_log :
                IsDetection(j) =>
                   /\ reap_log[j].count = reap_log[j].counted + 1
                   /\ (reap_log[j].what = "requeued") <=> (reap_log[j].count <= MAX_REQUEUES)
                   /\ (reap_log[j].what = "quarantined") <=> (reap_log[j].count > MAX_REQUEUES)
          /\ \A j, k \in DOMAIN reap_log :
                (/\ j < k /\ IsDetection(j) /\ IsDetection(k)
                 /\ reap_log[k].item = reap_log[j].item
                 /\ reap_log[k].origin = reap_log[j].origin
                 /\ reap_log[k].at < reap_log[j].at + REQUEUE_COUNT_TTL_SEC)
                => reap_log[k].count > reap_log[j].count)
    /\ StaleDetectionEffects

\* Witness of C24: an action was requeued, found stale again while the counter
\* lived and quarantined, and is on the quarantine queue once
RequeuedThenQuarantined ==
    \E j, k \in DOMAIN reap_log :
        /\ j < k
        /\ reap_log[j].what = "requeued"
        /\ reap_log[k].what = "quarantined"
        /\ reap_log[k].item = reap_log[j].item
        /\ reap_log[k].origin = reap_log[j].origin
        /\ reap_log[k].count = MAX_REQUEUES + 1
        /\ Occurrences(q_quarantine, reap_log[k].item) = 1

(***************************************************************************)
(* C25  Audit chain after a failed write                                   *)
(***************************************************************************)
\* The hash of the last entry present in audit.jsonl, GENESIS for an empty file
LastPresentHash(file) == IF file = <<>> THEN GENESIS ELSE file[Len(file)]["hash"]

\* Every append chains from the last entry present in the file
ChainsFromLastPresent ==
    Len(audit_file') > Len(audit_file) =>
        audit_file'[Len(audit_file')]["prev_hash"] = LastPresentHash(audit_file)

\* verify_audit_chain() answers ok
AuditVerifies == verify_audit_chain(audit_exists, audit_file, audit_secret).ok

\* C25 as stated: if write_audit_log fails or the process stops at any point
\* of an append (before the line is appended, after the line is appended but
\* before audit.state is written, or between the audit.state and
\* audit_head.txt writes), every later append chains from the hash of the last
\* entry actually present in audit.jsonl, so verify_audit_chain still returns
\* ok.
AuditChainAfterFailedWrite == []AuditVerifies /\ [][ChainsFromLastPresent]_vars

(***************************************************************************)
(* C26  Decision returned despite audit failure                            *)
(***************************************************************************)
\* C26 as stated: when the audit append of an otherwise successful /analyze
\* request fails, the request still returns its decision payload (HTTP 200).
DecisionDespiteAuditFailure ==
    [][(gw_last' # gw_last /\ gw_last'.stage = "ok" /\ audit_stops' > audit_stops) =>
          /\ gw_last'.status = 200
          /\ gw_last'.decision \in {"allow", "review", "deny"}]_vars

(***************************************************************************)
(* C27  Manager decision record                                            *)
(***************************************************************************)
\* The manager pops an item in this step
ManagerPops == Len(mgr_log') = Len(mgr_log) + 1

\* The decisions record of this step says the incident was not suppressed
DecidedNotSuppressed ==
    LET d == q_decisions'[Len(q_decisions')]
    IN IsJson(d) /\ "suppressed" \in DOMAIN jload(d) /\ ~jload(d).suppressed

\* What a pop appends: one decisions record, and a triaged document exactly
\* when the record says not suppressed
OneDecisionRecord ==
    /\ Len(q_decisions') = Len(q_decisions) + 1
    /\ SubSeq(q_decisions', 1, Len(q_decisions)) = q_decisions
    /\ Len(q_triaged') = Len(q_triaged) + (IF DecidedNotSuppressed THEN 1 ELSE 0)

\* C27 as stated: for every item the manager pops from the incidents queue,
\* exactly one record is appended to the decisions queue, whether the incident
\* is suppressed, not suppressed, or not valid JSON; a triaged document is
\* pushed if and only if the incident was not suppressed.
ManagerDecisionRecord ==
    /\ [][ManagerPops => OneDecisionRecord]_vars
    /\ [][~ManagerPops => (q_decisions' = q_decisions /\ q_triaged' = q_triaged)]_vars

(***************************************************************************)
(* C28  Proposal gates                                                     *)
(***************************************************************************)
\* The manager called propose_from_recommendation for the k-th handled payload
ProposeCalled(k) == mgr_log[k].valid /\ mgr_log[k].gate # "off"

\* Every gate is open before the call: the type is not none, the freeze key
\* is absent, the fingerprint key is absent, the budget window holds fewer
\* than BUDGET_MAX events, the cooldown key is absent
GatesOpen(e) ==
    /\ OrEmpty(e.rec_type) # TYPE_NONE
    /\ ~_global_freeze_active(e.frozen)
    /\ ~e.fp_key_live
    /\ e.budget_used < BUDGET_MAX
    /\ ~e.cooldown_live

\* C28: propose_from_recommendation creates a proposal only when the
\* recommendation type is not none, the global freeze is inactive, the
\* per-fingerprint proposal key is absent, the action budget is not exceeded
\* and the per-(type,target) cooldown key is absent; whenever any gate skips,
\* no action record is written, nothing is pushed to the proposed queue, no
\* fingerprint key is set, no cooldown key is set and no budget event is
\* recorded.
ProposalGates ==
    \A k \in DOMAIN mgr_log :
        LET e == mgr_log[k]
        IN ProposeCalled(k) =>
              /\ (e.pushed = 1 \/ e.created # {}) => GatesOpen(e)
              /\ GatesOpen(e) =>
                    /\ e.gate = ""
                    /\ e.pushed = 1
                    /\ Cardinality(e.created) = 1
                    /\ e.fp_key_set /\ e.cooldown_set /\ e.budget_events = 1
              /\ ~GatesOpen(e) =>
                    /\ e.gate # ""
                    /\ e.pushed = 0
                    /\ e.created = {}
                    /\ e.rewritten = {}
                    /\ ~e.fp_key_set
                    /\ ~e.cooldown_set
                    /\ e.budget_events = 0

\* A proposal was created, and a later call for another incident of the same
\* service was skipped by the cooldown gate alone
ProposedThenSkippedByCooldown ==
    \E j, k \in DOMAIN mgr_log :
        /\ j < k
        /\ ProposeCalled(j) /\ mgr_log[j].gate = ""
        /\ ProposeCalled(k) /\ mgr_log[k].gate = "cooldown"
        /\ ~mgr_log[k].fp_key_live /\ mgr_log[k].budget_used < BUDGET_MAX

(***************************************************************************)
(* C29  Worker exception guard                                             *)
(***************************************************************************)
\* The approver's try block raised on the item it handles in this step
ApproverRaised ==
    /\ Len(ap_log') = Len(ap_log) + 1
    /\ IsExceptionReason(ApproverVerdict(Strip(ap_item), kv_action))

\* The executor's try block raised on the item it handles in this step
ExecutorRaised ==
    /\ Len(exec_log') = Len(exec_log) + 1
    /\ exec_log'[Len(exec_log')].what = "exception"

\* A rejection for action A is recorded in this step: the canonical record of
\* A gets status rejected and one entry naming A, with an exception reason, is
\* pushed to the rejected queue
RejectionRecordedFor(A) ==
    /\ A \in DOMAIN kv_action'
    /\ Get(jload(kv_action'[A]), "status", "") = "rejected"
    /\ Len(q_rejected') = Len(q_rejected) + 1
    /\ jload(q_rejected'[Len(q_rejected')]).action_id = A
    /\ IsExceptionReason(jload(q_rejected'[Len(q_rejected')]).reason)

\* The approver's half: the rejection is recorded for the claimed id, the
\* token is gone and the worker is free for the next item
ApproverGuard ==
    ApproverRaised =>
        /\ RejectionRecordedFor(Strip(ap_item))
        /\ \A i \in DOMAIN q_proposed_inflight' : q_proposed_inflight'[i] # ap_item
        /\ ap_item' = NoItem

\* The executor's half, for a claimed message that names its action
ExecutorGuard ==
    (ExecutorRaised /\ IsJson(ex_item)) =>
        /\ RejectionRecordedFor(ExecutorReading(ex_item).action_id)
        /\ \A i \in DOMAIN q_approved_inflight' : q_approved_inflight'[i] # ex_item
        /\ ex_item' = NoItem

\* C29 as stated: when any exception is raised while the approver or the
\* executor processes a claimed action A, the worker does not stop; a
\* rejection with reason 'exception:<class>:<message>' is recorded for action
\* A itself (its canonical record gets status rejected and a rejection entry
\* naming A's action_id is pushed to the rejected queue), A's inflight token
\* is removed, and the worker goes on to the next item.
WorkerExceptionGuard == [][ApproverGuard /\ ExecutorGuard]_vars

\* The approver's half alone
ApproverExceptionGuard == [][ApproverGuard]_vars

(***************************************************************************)
(* C30  FIFO per queue                                                     *)
(***************************************************************************)
\* The approver claims in this step, and what it claims is the id pushed
\* first among those waiting (pushes append to the tail of the list)
ApproverClaimsOldest ==
    (ap_item = NoItem /\ ap_item' # NoItem) => ap_item' = Head(q_proposed)

\* The same for the executor and the approved queue
ExecutorClaimsOldest ==
    (ex_item = NoItem /\ ex_item' # NoItem) => ex_item' = Head(q_approved)

\* The manager handles the incident pushed first among those waiting
ManagerHandlesOldest ==
    (Len(mgr_log') = Len(mgr_log) + 1 /\ mgr_log'[Len(mgr_log')].valid) =>
        /\ mgr_log'[Len(mgr_log')].fp = incident_fingerprint(jload(Head(q_incidents)))
        /\ q_incidents' = Tail(q_incidents)

\* C30 as stated: the approver claims action_ids in the order the manager
\* pushed them to the proposed queue, and the executor claims approved
\* messages in the order the approver pushed them to the approved queue; the
\* manager handles incidents in the order the probe pushed them.
FifoPerQueue ==
    [][ApproverClaimsOldest /\ ExecutorClaimsOldest /\ ManagerHandlesOldest]_vars

\* The manager's part alone
ManagerFifo == [][ManagerHandlesOldest]_vars

(***************************************************************************)
(* C31  Probe debouncing invariant                                         *)
(***************************************************************************)
\* The service has been probed at least once
Probed(svc) == probe_state[svc] # ""

\* C31: after every probe cycle of a service, the stored state is fail if and
\* only if the persisted failure counter is >= FAIL_THRESHOLD, i.e. at least
\* FAIL_THRESHOLD consecutive failures have occurred since the last success;
\* every successful probe resets the counter to 0 and sets the state to ok,
\* and fewer than FAIL_THRESHOLD consecutive failures never set the state to
\* fail.
ProbeDebounce ==
    \A svc \in Services :
        Probed(svc) =>
            /\ probe_state[svc] \in {"ok", "fail"}
            /\ probe_state[svc] = "fail" <=> probe_failcount[svc] >= FAIL_THRESHOLD
            /\ probe_failcount[svc] = probe_run[svc]
            /\ probe_run[svc] = 0 => (probe_failcount[svc] = 0 /\ probe_state[svc] = "ok")
            /\ probe_run[svc] < FAIL_THRESHOLD => probe_state[svc] # "fail"

\* A service failed exactly FAIL_THRESHOLD times in a row and is stored as
\* fail, while another was probed and is stored as ok
FailedAtThreshold ==
    \E svc, other \in Services :
        /\ probe_run[svc] = FAIL_THRESHOLD
        /\ probe_state[svc] = "fail"
        /\ Probed(other) /\ probe_state[other] = "ok"

(***************************************************************************)
(* C32  No replay inside the acceptance window                             *)
(***************************************************************************)
\* A request is answered in this step
Answered == gw_last' # gw_last \/ gw_requests' # gw_requests

\* The triple of the request answered in this step was accepted before
AcceptedBefore == \E p \in gw_passed : p.accepted /\ p.nonce = gw_last'.nonce

\* C32 as stated: once an /analyze request with a given (agent_id, command,
\* ts_unix) has been accepted, no later request with the same triple is
\* accepted at any time at which that ts_unix still passes the
\* timestamp-window check (|now - ts_unix| <= TIME_WINDOW_SEC); the stored
\* nonce never expires while the timestamp is still acceptable.
NoReplayInsideWindow ==
    [][(Answered /\ gw_cfg.signing_secret # "" /\ AcceptedBefore) =>
          gw_last'.status # 200]_vars

(***************************************************************************)
(* C33  Bad signature leaves the replay store unchanged                    *)
(***************************************************************************)
\* The request answered in this step is rejected with 401 Bad signature
BadSignatureAnswered == Answered /\ gw_last'.status = 401 /\ gw_last'.stage = "badsig"

\* The request answered in this step is rejected with 409 Replay detected
ReplayAnswered == Answered /\ gw_last'.status = 409 /\ gw_last'.stage = "replay"

\* C33 as stated: an /analyze request rejected with 401 Bad signature stores
\* no nonce, so a later correctly signed request with the same (agent_id,
\* command, ts_unix) inside the time window is not rejected with 409 because
\* of the earlier forged request.
BadSignatureStoresNothing ==
    /\ [][BadSignatureAnswered =>
            (replay_redis' = replay_redis /\ replay_sqlite' = replay_sqlite)]_vars
    /\ [][ReplayAnswered => AcceptedBefore]_vars

\* The second part alone
ReplayOnlyAfterAcceptance == [][ReplayAnswered => AcceptedBefore]_vars

(***************************************************************************)
(* C34  Single approval per action                                         *)
(***************************************************************************)
\* The iterations of the approver that approved the given id
ApprovalsOf(id) ==
    {k \in DOMAIN ap_log : ap_log[k].id = id /\ ap_log[k].pushed_approved # <<>>}

\* C34 as stated: under every interleaving of the approver and the reaper
\* (including the reaper scanning proposed:inflight while the approver is
\* still processing the claimed id), at most one approved message per
\* action_id is ever pushed to the approved queue and the approval block of a
\* record is written at most once.
SingleApproval ==
    \A k \in DOMAIN ap_log : Cardinality(ApprovalsOf(ap_log[k].id)) <= 1

(***************************************************************************)
(* C35  Concurrent audit appends: when write_audit_log calls of requests   *)
(* served concurrently interleave at every file read and write, then once  *)
(* all of them have returned the audit file is a valid chain (each entry's *)
(* prev_hash is the hash of the entry on the previous line) and            *)
(* audit.state holds the hash of the last line.                            *)
(***************************************************************************)
AuditThreadsQuiet == \A t \in HandlerThreads : aw_threads[t].pc = "idle"

AuditChainLinked ==
    \A i \in DOMAIN audit_file :
        audit_file[i]["prev_hash"] = IF i = 1 THEN GENESIS ELSE audit_file[i - 1]["hash"]

AuditStateIsLastHash ==
    audit_file # <<>> => audit_state = audit_file[Len(audit_file)]["hash"]

ConcurrentAuditAppends ==
    AuditThreadsQuiet => (AuditChainLinked /\ AuditVerifies /\ AuditStateIsLastHash)

(***************************************************************************)
(* C36  No lost ledger updates: when the load / update / save sequences of *)
(* requests served concurrently interleave, then once all of them have     *)
(* completed the persisted ledger has, for each agent, allowed + blocked + *)
(* reviewed equal to the number of its completed analyses.                 *)
(***************************************************************************)
LedgerThreadsQuiet == \A t \in HandlerThreads : lg_threads[t].pc = "idle"

LedgerCount(agent_id) ==
    ledger[agent_id].allowed + ledger[agent_id].blocked + ledger[agent_id].reviewed

NoLostLedgerUpdates ==
    LedgerThreadsQuiet => \A agent_id \in Agents : LedgerCount(agent_id) = lg_done[agent_id]

(***************************************************************************)
(* C37  Expiry is honoured: the approver approves no action, and the       *)
(* executor dispatches no side effect, at a time later than the expires_ts *)
(* stored in the action's record.                                          *)
(***************************************************************************)
ApprovedInTime ==
    \A k \in DOMAIN ap_log :
        (ap_log[k].pushed_approved # <<>> /\ ap_log[k].id \in DOMAIN kv_action)
            => ap_log[k].at <= jload(kv_action[ap_log[k].id]).expires_ts

DispatchedInTime ==
    \A k \in DOMAIN exec_log :
        (exec_log[k].dispatched # {} /\ exec_log[k].id \in DOMAIN kv_action)
            => exec_log[k].at <= jload(kv_action[exec_log[k].id]).expires_ts

ExpiryHonoured == ApprovedInTime /\ DispatchedInTime

(***************************************************************************)
(* C38  Dispatch only of approved intent: every dispatch of the executor   *)
(* is of type restart_service, passes the allowlists, and is for an        *)
(* (action_id, type, target, params) for which the approver earlier pushed *)
(* an approval whose approved_digest is the digest of that intent; an item *)
(* that reached the approved queue in any other way causes no dispatch.    *)
(***************************************************************************)
\* The approver approved the intent the k-th delivery dispatched, under its id
ApproverApproved(k, d) ==
    LET rd == ExecutorReading(exec_log[k].item)
        intent == [type |-> d.type, target |-> d.target,
                   params |-> Get(rd.action, "params", NoneDict)]
    IN \E m \in approved_sent :
          LET orig == ExecutorReading(m)
          IN /\ orig.action_id = exec_log[k].id
             /\ NormalisedIntent(orig.action) = NormalisedIntent(intent)
             /\ orig.approved_digest = digest_action(intent)

DispatchOnlyApprovedIntent ==
    \A k \in DOMAIN exec_log : \A d \in exec_log[k].dispatched :
        /\ d.type = RESTART_SERVICE
        /\ _allowed(d.type, d.target).ok
        /\ IsJson(exec_log[k].item)
        /\ ApproverApproved(k, d)

(***************************************************************************)
(* C39  Decay is independent of the read pattern: for an agent that        *)
(* receives no update, the reputation get_state returns a time T after the *)
(* last update is the value of that update moved toward 0 by               *)
(* min(|start|, floor(T / DECAY_PERIOD_SEC) * DECAY_STEP), whether or not  *)
(* get_state was called in between.                                        *)
(***************************************************************************)
\* start moved toward 0 by min(|start|, floor(T / DECAY_PERIOD_SEC) * DECAY_STEP)
MovedTowardZero(start, T) ==
    LET by == Min2(Abs(start), (T \div DECAY_PERIOD_SEC) * DECAY_STEP)
    IN IF start > 0 THEN start - by ELSE IF start < 0 THEN start + by ELSE start

\* The entry of the agent as its last update left it
LastUpdated(agent_id) == ledger_log[1].before[agent_id]

DecayIndependentOfReads ==
    \A k \in DOMAIN ledger_log :
        LET e == ledger_log[k]
            start == LastUpdated(e.agent_id)
        IN (e.op = "read" /\ start.present
              /\ \A j \in 1 .. k : ledger_log[j].op = "read")
           => e.after[e.agent_id].reputation
                 = MovedTowardZero(start.reputation, e.at - start.updated_at)

(***************************************************************************)
(* C40  Reaper scan of non-stale and finished items: in one scan the       *)
(* reaper removes the inflight token and pushes nothing when the action's  *)
(* record is missing or its status is terminal; it leaves the token        *)
(* untouched (no removal, no requeue, no counter increment) when the       *)
(* record is non-terminal and its latest claim timestamp is younger than   *)
(* STALE_SEC; it treats a non-terminal record without any claim timestamp  *)
(* as stale.                                                               *)
(***************************************************************************)
\* The origins of the inflight list a step of the reaper scanned
ScannedOrigins ==
    {reap_log'[k].origin : k \in NewReapEntries} \cup {e.origin : e \in reap_kept' \ reap_kept}

InflightOf(origin) == IF origin = "proposed" THEN q_proposed_inflight ELSE q_approved_inflight
MainOf(origin) == IF origin = "proposed" THEN q_proposed ELSE q_approved

\* The record stored for an inflight item is missing
RecordMissing(item) == IsJson(item) \/ item \notin DOMAIN kv_action

RecordTerminal(item) ==
    /\ ~RecordMissing(item)
    /\ Get(jload(kv_action[item]), "status", "") \in {"executed", "failed", "rejected",
                                                      "quarantined"}

\* The claim timestamps of a record: execution.claimed_ts and approval.approved_ts
ClaimTimestamps(rec) ==
    (IF "execution" \in DOMAIN rec /\ "claimed_ts" \in DOMAIN rec.execution
     THEN {rec.execution.claimed_ts} ELSE {})
    \cup (IF "approval" \in DOMAIN rec /\ "approved_ts" \in DOMAIN rec.approval
          THEN {rec.approval.approved_ts} ELSE {})

\* Every claim timestamp of the record is younger than STALE_SEC
ClaimedRecently(item) ==
    /\ ClaimTimestamps(jload(kv_action[item])) # {}
    /\ \A ts \in ClaimTimestamps(jload(kv_action[item])) : now - ts < STALE_SEC

\* The step left the token, the queues, the counter and the record of the item alone
TokenUntouched(item, origin) ==
    /\ Occurrences(InflightOf(origin)', item) = Occurrences(InflightOf(origin), item)
    /\ Occurrences(MainOf(origin)', item) = Occurrences(MainOf(origin), item)
    /\ Occurrences(q_quarantine', item) = Occurrences(q_quarantine, item)
    /\ CounterValue(requeue_count', <<"ops:requeue_count", origin, item>>, now)
          = CounterValue(requeue_count, <<"ops:requeue_count", origin, item>>, now)
    /\ kv_action'[item] = kv_action[item]

\* The step removed the token and pushed the item nowhere
TokenRemovedOnly(item, origin) ==
    /\ Occurrences(InflightOf(origin)', item) = 0
    /\ Occurrences(MainOf(origin)', item) = Occurrences(MainOf(origin), item)
    /\ Occurrences(q_quarantine', item) = Occurrences(q_quarantine, item)
    /\ CounterValue(requeue_count', <<"ops:requeue_count", origin, item>>, now)
          = CounterValue(requeue_count, <<"ops:requeue_count", origin, item>>, now)

\* The step handled the item as stale: token removed, counter raised, the item
\* requeued or quarantined
TokenStale(item, origin) ==
    /\ Occurrences(InflightOf(origin)', item) = 0
    /\ CounterValue(requeue_count', <<"ops:requeue_count", origin, item>>, now)
          > CounterValue(requeue_count, <<"ops:requeue_count", origin, item>>, now)
    /\ Occurrences(MainOf(origin)', item) + Occurrences(q_quarantine', item)
          > Occurrences(MainOf(origin), item) + Occurrences(q_quarantine, item)

ReaperScanCases ==
    [][\A origin \in ScannedOrigins :
          \A i \in DOMAIN InflightOf(origin) :
             LET item == InflightOf(origin)[i]
             IN /\ (RecordMissing(item) \/ RecordTerminal(item))
                      => TokenRemovedOnly(item, origin)
                /\ (~RecordMissing(item) /\ ~RecordTerminal(item) /\ ClaimedRecently(item))
                      => TokenUntouched(item, origin)
                /\ (~RecordMissing(item) /\ ~RecordTerminal(item)
                       /\ ClaimTimestamps(jload(kv_action[item])) = {})
                      => TokenStale(item, origin)]_vars

\* Witness of C40: scans have removed the token of a finished or missing action
\* without a push, passed over a token claimed recently, and requeued a token
\* whose record carries no claim timestamp
ReaperScanCasesSeen ==
    /\ \E k \in DOMAIN reap_log : reap_log[k].what \in {"dropped", "terminal"}
    /\ \E e \in reap_kept : e.origin = "proposed"
    /\ \E k \in DOMAIN reap_log :
          /\ reap_log[k].what = "requeued"
          /\ reap_log[k].status = "proposed"

====
